---- MODULE Spec2Model ----
(***************************************************************************)
(* undisorder: the batch import orchestrator (importer.py), the persisted *)
(* hash index (hashdb.py) and the helpers they use, as a state machine.    *)
(*                                                                         *)
(* Encodings.  A content digest is the identity of the file content       *)
(* (SHA-256 is taken to be injective on the contents of the model).  Path *)
(* parts are small integers whose order is the alphabetical order of the  *)
(* names they stand for.  A path inside a target is a sequence            *)
(* <<dirname, filename, k1, ...>>: the suggested directory, the source     *)
(* file name and the numeric suffixes resolve_collision appended to the   *)
(* stem.  The empty sequence is the NULL file_path, 0 the NULL hash.       *)
(***************************************************************************)
EXTENDS Integers, Sequences, FiniteSets, TLC

(* ---------------------------------------------------------------- bounds *)
MaxRuns == 2          \* runs of run_import in one behaviour
MaxEdits == 1         \* operator edits of source files between runs
MaxFailures == 1      \* exceptions the environment injects in one behaviour
PhotoBatchSize == 2   \* chunk size of the photo/video phase (100 in the code)
AudioBatchSize == 1   \* chunk size of the audio phase (10 in the code)

(* ------------------------------------------------- the source tree layout *)
\* part codes:  1 "a.jpg"   2 "b.jpg"   3 "d" (a directory)   4 "s.mp3"   5 "t.mp3"
\*              6 "e" (a directory)   7 "z.jpg"   11, 12, ... "f1.jpg", "f2.jpg", ...
\* files:  1 d/a.jpg   2 d/b.jpg   3 a.jpg   4 s.mp3   5 t.mp3
FileIds == 1..5

\* a second picture at the scan root, 6 z.jpg, is there in the runs with group
\* prompts only
AllFiles == 1..6

\* parent directory of a source file, relative to the scan root
SrcDir(f) == IF f \in {1, 2} THEN <<3>> ELSE <<>>

\* file name of a source file
SrcName(f) == CASE f = 1 -> 1 [] f = 2 -> 2 [] f = 3 -> 1 [] f = 4 -> 4 [] f = 6 -> 7
                     [] OTHER -> 5

\* path of a source file relative to the scan root
SrcPath(f) == Append(SrcDir(f), SrcName(f))

\* file contents; the source trees start with the old ones
Contents == 1..3
OldContents == 1..2
NullHash == 0
NullPath == <<>>
Targets == {"img", "vid", "aud"}

Absent == [exists |-> FALSE, content |-> 0, mtime |-> 0]
NoErr == [type |-> "", msg |-> ""]
NoFail == [at |-> "none", idx |-> 0]

VARIABLES
    src,         \* source tree: file -> [exists, content, mtime]
    tgt,         \* files in the target trees: set of [target, path, content, mtime]
    roots,       \* targets whose root directory exists
    files,       \* table files: set of [target, hash, path, source]
    imports,     \* table imports: set of [target, source, hash, path]
    cache,       \* table acoustid_cache: hashes that have an entry
    failureLog,  \* import_failures.jsonl: sequence of entries
    args,        \* flags of the run in progress
    pc,          \* "idle", "photo", "audio", "report"
    batches,     \* chunks of the current phase still to process
    audioFiles,  \* result.audios of the scan of this run
    totals,      \* [imported, skipped, failures] of the current phase
    failures,    \* failures summed by run_import so far in this run
    summary,     \* what the last finished run reported
    hist         \* bookkeeping for the properties (not program state)

vars == <<src, tgt, roots, files, imports, cache, failureLog, args, pc,
          batches, audioFiles, totals, failures, summary, hist>>

(* ------------------------------------------------------ generic helpers *)
Min(S) == CHOOSE x \in S : \A y \in S : x <= y
Max(S) == CHOOSE x \in S : \A y \in S : x >= y

RECURSIVE SeqToSet(_)
SeqToSet(s) == IF s = <<>> THEN {} ELSE {Head(s)} \cup SeqToSet(Tail(s))

\* lexicographic order on sequences of part codes (pathlib path comparison)
RECURSIVE PathLess(_, _)
PathLess(p, q) ==
    IF q = <<>> THEN FALSE
    ELSE IF p = <<>> THEN TRUE
    ELSE IF Head(p) # Head(q) THEN Head(p) < Head(q)
    ELSE PathLess(Tail(p), Tail(q))

(* ------------------------------------------------------------ scanner.py *)
\* classify: the extension decides the kind
classify(f) == IF SrcName(f) \in {4, 5} THEN "audio" ELSE "photo"

\* the files of S in ascending path order
RECURSIVE SortedByPath(_)
SortedByPath(S) ==
    IF S = {} THEN <<>>
    ELSE LET m == CHOOSE x \in S : \A y \in S \ {x} : PathLess(SrcPath(x), SrcPath(y))
         IN <<m>> \o SortedByPath(S \ {m})

\* scan: every existing file, sorted by path, split by kind
scan(s) ==
    LET present(k) == {f \in AllFiles : s[f].exists /\ classify(f) = k}
    IN [photos |-> SortedByPath(present("photo")),
        videos |-> SortedByPath(present("video")),
        audios |-> SortedByPath(present("audio"))]

(* ----------------------------------------------- importer.py: grouping *)
\* variant: the directories are sorted shallowest first
DirBefore_m(d, e) == Len(d) < Len(e) \/ (Len(d) = Len(e) /\ PathLess(d, e))

\* the sort key of _group_by_source_dir: more path parts first, then by path
DirBefore(d, e) == Len(d) > Len(e) \/ (Len(d) = Len(e) /\ PathLess(d, e))

RECURSIVE SortDirs(_)
SortDirs(D) ==
    IF D = {} THEN <<>>
    ELSE LET m == CHOOSE x \in D : \A y \in D \ {x} : DirBefore(x, y)
         IN <<m>> \o SortDirs(D \ {m})

\* _group_by_source_dir: (rel_dir, files in list order), deepest directory
\* first; dirOf[f] is f.parent.relative_to(source_root)
group_by(fs, dirOf) ==
    LET dirs == SortDirs({dirOf[fs[i]] : i \in 1..Len(fs)})
    IN [i \in 1..Len(dirs) |->
          [dir |-> dirs[i],
           files |-> SelectSeq(fs, LAMBDA f : dirOf[f] = dirs[i])]]

\* _group_by_source_dir on the files of the source tree layout
group_by_source_dir(fs) == group_by(fs, [f \in SeqToSet(fs) |-> SrcDir(f)])

\* variant: a slice takes one file more than batch_size
SliceEnd_m(fs, from, size) == IF from + size < Len(fs) THEN from + size ELSE Len(fs)

\* the index of the last file of the slice files[i : i + batch_size]
SliceEnd(fs, from, size) == IF from + size - 1 < Len(fs) THEN from + size - 1 ELSE Len(fs)

\* the slices files[i : i + batch_size] for i = from, from + batch_size, ...
RECURSIVE Slices(_, _, _, _)
Slices(d, fs, from, size) ==
    IF from > Len(fs) THEN <<>>
    ELSE <<[dir |-> d,
            files |-> SubSeq(fs, from, SliceEnd(fs, from, size))]>>
         \o Slices(d, fs, from + size, size)

\* _iter_batches: every group sliced into chunks of at most batch_size files
RECURSIVE iter_batches(_, _)
iter_batches(groups, size) ==
    IF groups = <<>> THEN <<>>
    ELSE Slices(Head(groups).dir, Head(groups).files, 1, size)
         \o iter_batches(Tail(groups), size)

(* -------------------------------------------------------------- hashdb.py *)
\* variant: the query looks for the hash in another target
hash_exists_m(fl, t, h) == \E r \in fl : r.target # t /\ r.hash = h

\* HashDB.hash_exists
hash_exists(fl, t, h) == \E r \in fl : r.target = t /\ r.hash = h

\* the primary key of table files is (target_dir, hash, file_path)
insert_raises(fl, t, h, p) ==
    \E r \in fl : r.target = t /\ r.hash = h /\ r.path = p

\* variant: the record is written without its source_path (NULL)
insert_m(fl, t, h, p, s) ==
    fl \cup {[target |-> t, hash |-> h, path |-> p, source |-> 0]}

\* HashDB.insert (the caller has checked insert_raises)
insert(fl, t, h, p, s) ==
    fl \cup {[target |-> t, hash |-> h, path |-> p, source |-> s]}

\* sqlite3.IntegrityError, raised on a primary key already in the table
IntegrityError == [type |-> "IntegrityError", msg |-> "UNIQUE constraint failed"]

\* variant: the key of table files is taken to be (target_dir, hash)
try_insert_m(fl, t, h, p, s) ==
    IF hash_exists(fl, t, h) THEN [files |-> fl, err |-> IntegrityError]
    ELSE [files |-> insert(fl, t, h, p, s), err |-> NoErr]

\* HashDB.insert with its exception: the INSERT fails on the primary key and
\* writes nothing, else the row is added
try_insert(fl, t, h, p, s) ==
    IF insert_raises(fl, t, h, p) THEN [files |-> fl, err |-> IntegrityError]
    ELSE [files |-> insert(fl, t, h, p, s), err |-> NoErr]

\* variant: the DELETE does not look at the path
delete_by_hash_and_path_m(fl, t, h, p) == {r \in fl : ~(r.target = t /\ r.hash = h)}

\* HashDB.delete_by_hash_and_path
delete_by_hash_and_path(fl, t, h, p) ==
    {r \in fl : ~(r.target = t /\ r.hash = h /\ r.path = p)}

\* variant: the DELETE is not restricted to the target of the handle
delete_by_path_m(fl, t, p) == {r \in fl : r.path # p}

\* HashDB.delete_by_path
delete_by_path(fl, t, p) == {r \in fl : ~(r.target = t /\ r.path = p)}

\* HashDB.get_by_hash: the rows of the hash
get_by_hash(fl, t, h) == {r \in fl : r.target = t /\ r.hash = h}

\* HashDB.count
count(fl, t) == Cardinality({r \in fl : r.target = t})

\* HashDB.find_duplicates: the hashes with more than one row, with the number
find_duplicates(fl, t) ==
    {[hash |-> h, count |-> Cardinality(get_by_hash(fl, t, h))] :
        h \in {r.hash : r \in {q \in fl : q.target = t
                                          /\ Cardinality(get_by_hash(fl, t, q.hash)) > 1}}}

\* a relative path one of whose parts starts with "." (part code 0)
Hidden(p) == \E i \in 1..Len(p) : i <= 2 /\ p[i] = 0

\* the regular files rebuild indexes in the tree of directory d
Indexed(tg, d) == {y \in tg : y.target = d /\ ~Hidden(y.path)}

\* variant: hidden files are indexed as well
rebuild_m(fl, tg, t, d) ==
    {r \in fl : r.target # t}
        \cup {[target |-> t, hash |-> y.content, path |-> y.path, source |-> 0] :
                 y \in {z \in tg : z.target = d}}

\* HashDB(t).rebuild(d): the rows of the handle's target are deleted, then
\* every regular file of the tree that is not hidden is hashed and inserted
\* with its relative path and no source path
rebuild(fl, tg, t, d) ==
    {r \in fl : r.target # t}
        \cup {[target |-> t, hash |-> y.content, path |-> y.path, source |-> 0] :
                 y \in Indexed(tg, d)}

\* HashDB.delete_by_hash, the method the importer calls on an update: every
\* record of this target with the given hash is removed
delete_by_hash(fl, t, h) == {r \in fl : ~(r.target = t /\ r.hash = h)}

\* HashDB.get_import: the set of matching rows (empty or a singleton)
get_import(im, t, s) == {r \in im : r.target = t /\ r.source = s}

\* HashDB.source_path_imported
source_path_imported(im, t, s) == get_import(im, t, s) # {}

\* variant: INSERT OR REPLACE, the row of the key is overwritten
record_import_m(im, t, s, h, p) ==
    {r \in im : ~(r.target = t /\ r.source = s)}
        \cup {[target |-> t, source |-> s, hash |-> h, path |-> p]}

\* HashDB.record_import: INSERT OR IGNORE on the key (target_dir, source_path)
record_import(im, t, s, h, p) ==
    IF source_path_imported(im, t, s) THEN im
    ELSE im \cup {[target |-> t, source |-> s, hash |-> h, path |-> p]}

\* variant: the row is written also when the source path has none
update_import_m(im, t, s, h, p) ==
    {r \in im : ~(r.target = t /\ r.source = s)}
        \cup {[target |-> t, source |-> s, hash |-> h, path |-> p]}

\* variant: the old row is deleted and the new one is never written
update_import_d(im, t, s, h, p) == {r \in im : ~(r.target = t /\ r.source = s)}

\* HashDB.update_import: UPDATE ... WHERE target_dir = ? AND source_path = ?
update_import(im, t, s, h, p) ==
    {IF r.target = t /\ r.source = s
     THEN [target |-> t, source |-> s, hash |-> h, path |-> p] ELSE r : r \in im}

(* ----------------------------------------------------------- organizer.py *)
\* does a file exist at path p of target t
TargetExists(tg, t, p) == \E x \in tg : x.target = t /\ x.path = p

\* variant: the first numbered name is taken without looking whether it is free
resolve_collision_m(tg, t, p) ==
    IF ~TargetExists(tg, t, p) THEN p ELSE Append(p, 1)

\* resolve_collision: the path itself when free, else the first free stem_k
resolve_collision(tg, t, p) ==
    IF ~TargetExists(tg, t, p) THEN p
    ELSE LET used == {k \in 1..(Cardinality(tg) + 1) : TargetExists(tg, t, Append(p, k))}
         IN Append(p, Min((1..(Cardinality(tg) + 1)) \ used))

\* the file name of the destination: determine_target_path keeps the name of
\* the source, determine_audio_target_path makes NN_Title.ext from the tags
\* when track number and title are there; the two audio files of the tree
\* carry the same track number and title, which gives the name of s.mp3
DestName(f) == IF SrcName(f) \in {4, 5} THEN 4 ELSE SrcName(f)

\* suggest_dirname: the directory name the metadata of a source file yields
suggest_dirname(f) == IF f = 2 THEN 2 ELSE 1

(* ------------------------------------------- importer.py: one file step *)
\* the database handle and target base a file is routed to (img_db / vid_db / aud_db)
TargetOf(f) ==
    CASE classify(f) = "video" -> "vid"
      [] classify(f) = "audio" -> "aud"
      [] OTHER -> "img"

\* hash_file: the digest of the content
hash_file(s, f) == s[f].content

\* st_mtime of the file at path p of target t
TargetMtime(tg, t, p) == (CHOOSE x \in tg : x.target = t /\ x.path = p).mtime

\* variant: a source as old as its target counts as newer
source_is_newer_m(s, tg, f, t, p) == s[f].mtime >= TargetMtime(tg, t, p)

\* _source_is_newer: strictly newer
source_is_newer(s, tg, f, t, p) == s[f].mtime > TargetMtime(tg, t, p)

\* the exception each failure point raises
ErrOf(at) ==
    CASE at = "extract" -> [type |-> "RuntimeError", msg |-> "extract"]
      [] at = "hash" -> [type |-> "FileNotFoundError", msg |-> "hash"]
      [] at = "copy" -> [type |-> "OSError", msg |-> "copy"]
      [] at = "insert" -> [type |-> "OperationalError", msg |-> "insert"]
      [] at = "record" -> [type |-> "OperationalError", msg |-> "record"]
      [] OTHER -> NoErr

NewEntry(f, h, t) == [f |-> f, h |-> h, t |-> t, old_hash |-> NullHash, old_path |-> NullPath]
IsUpdate(e) == e.old_path # NullPath

\* variant: the ImportRecord is consulted before the hash-present check
Decide_p(x, a, f, ans) ==
    LET h == hash_file(x.src, f)
        t == TargetOf(f)
        imp == get_import(x.imports, t, f)
    IN  IF imp # {} THEN
            LET r == CHOOSE row \in imp : TRUE
                source_newer == /\ r.path # NullPath
                                /\ TargetExists(x.tgt, t, r.path)
                                /\ source_is_newer(x.src, x.tgt, f, t, r.path)
            IN  IF ~source_newer THEN [kind |-> "skip", e |-> NewEntry(f, h, t)]
                ELSE IF a.interactive /\ ans # "y" THEN [kind |-> "skip", e |-> NewEntry(f, h, t)]
                ELSE IF ~a.interactive /\ ~a.update THEN [kind |-> "skip", e |-> NewEntry(f, h, t)]
                ELSE [kind |-> "import",
                      e |-> [f |-> f, h |-> h, t |-> t, old_hash |-> r.hash, old_path |-> r.path]]
        ELSE IF hash_exists(x.files, t, h) THEN [kind |-> "skip", e |-> NewEntry(f, h, t)]
        ELSE [kind |-> "import", e |-> NewEntry(f, h, t)]

\* variant: a newer source is updated without the flag and without the answer
Decide_m(x, a, f, ans) ==
    LET h == hash_file(x.src, f)
        t == TargetOf(f)
        imp == get_import(x.imports, t, f)
    IN  IF hash_exists(x.files, t, h) THEN [kind |-> "skip", e |-> NewEntry(f, h, t)]
        ELSE IF imp # {} THEN
            LET r == CHOOSE row \in imp : TRUE
                source_newer == /\ r.path # NullPath
                                /\ TargetExists(x.tgt, t, r.path)
                                /\ source_is_newer(x.src, x.tgt, f, t, r.path)
            IN  IF ~source_newer THEN [kind |-> "skip", e |-> NewEntry(f, h, t)]
                ELSE [kind |-> "import",
                      e |-> [f |-> f, h |-> h, t |-> t, old_hash |-> r.hash, old_path |-> r.path]]
        ELSE [kind |-> "import", e |-> NewEntry(f, h, t)]

\* the decision for one file of the hashing loop: "skip", or the to_import entry
Decide(x, a, f, ans) ==
    LET h == hash_file(x.src, f)
        t == TargetOf(f)
        imp == get_import(x.imports, t, f)
    IN  IF hash_exists(x.files, t, h) THEN [kind |-> "skip", e |-> NewEntry(f, h, t)]
        ELSE IF imp # {} THEN
            LET r == CHOOSE row \in imp : TRUE
                source_newer == /\ r.path # NullPath
                                /\ TargetExists(x.tgt, t, r.path)
                                /\ source_is_newer(x.src, x.tgt, f, t, r.path)
            IN  IF ~source_newer THEN [kind |-> "skip", e |-> NewEntry(f, h, t)]
                ELSE IF a.interactive /\ ans # "y" THEN [kind |-> "skip", e |-> NewEntry(f, h, t)]
                ELSE IF ~a.interactive /\ ~a.update THEN [kind |-> "skip", e |-> NewEntry(f, h, t)]
                ELSE [kind |-> "import",
                      e |-> [f |-> f, h |-> h, t |-> t, old_hash |-> r.hash, old_path |-> r.path]]
        ELSE [kind |-> "import", e |-> NewEntry(f, h, t)]

\* identify_audio as the hashing loop of the audio phase calls it: on a cache
\* miss with a successful fingerprint an entry is stored for the hash
identify_audio(c, h, fpOk) == IF h \in c THEN c ELSE IF fpOk THEN c \cup {h} ELSE c

\* the record a chunk works on: the file systems, the index tables, and the
\* locals of the batch function (to_import, counters, the exception raised);
\* k counts the entries whose execution has begun and began holds their files,
\* copied/took/passed note which files were written to a target, counted as
\* imported and counted as skipped
BatchStart(st) ==
    [src |-> st.src, tgt |-> st.tgt, roots |-> st.roots, files |-> st.files,
     imports |-> st.imports, cache |-> st.cache,
     to_import |-> <<>>, imported |-> 0, skipped |-> 0, err |-> NoErr,
     k |-> 0, prompts |-> 0, began |-> {}, copied |-> {}, took |-> {}, passed |-> {}]

\* variant: the hashing loop marks a source it decides to import as seen at once
Collect_m(x, f, c, d) ==
    IF d.kind = "skip"
    THEN [x EXCEPT !.cache = c, !.skipped = @ + 1, !.passed = @ \cup {f}]
    ELSE [x EXCEPT !.cache = c, !.to_import = Append(@, d.e),
                   !.imports = record_import(@, d.e.t, f, d.e.h, NullPath)]

\* variant: a file the hashing loop passes over is not counted
Collect_n(x, f, c, d) ==
    IF d.kind = "skip"
    THEN [x EXCEPT !.cache = c, !.passed = @ \cup {f}]
    ELSE [x EXCEPT !.cache = c, !.to_import = Append(@, d.e)]

\* the end of the body of the hashing loop: with decision d for file f and the
\* identification cache c, the file is counted as skipped or put on to_import
Collect(x, f, c, d) ==
    IF d.kind = "skip"
    THEN [x EXCEPT !.cache = c, !.skipped = @ + 1, !.passed = @ \cup {f}]
    ELSE [x EXCEPT !.cache = c, !.to_import = Append(@, d.e)]

\* the body of the hashing loop for file number i of the chunk: hash, identify
\* (audio), then skip or append to to_import
HashStep(x, a, f, i, inp) ==
    IF inp.fail = [at |-> "hash", idx |-> i] \/ ~x.src[f].exists
    THEN [x EXCEPT !.err = ErrOf("hash")]
    ELSE Collect(x, f,
                 IF classify(f) = "audio" /\ a.identify
                 THEN identify_audio(x.cache, hash_file(x.src, f), inp.fpOk) ELSE x.cache,
                 Decide(x, a, f, inp.updAns[f]))

\* the hashing loop of a chunk from file i on
RECURSIVE ScanLoop(_, _, _, _, _)
ScanLoop(x, a, batch, i, inp) ==
    IF i > Len(batch) \/ x.err # NoErr THEN x
    ELSE ScanLoop(HashStep(x, a, batch[i], i, inp), a, batch, i + 1, inp)

(* ------------------------------------- importer.py: executing an entry *)
\* variant: a move leaves the source where it is
CopyOrMove_m(x, a, f, t, p) ==
    [x EXCEPT
       !.tgt = {y \in @ : ~(y.target = t /\ y.path = p)}
               \cup {[target |-> t, path |-> p,
                      content |-> x.src[f].content, mtime |-> x.src[f].mtime]},
       !.copied = @ \cup {[f |-> f, t |-> t, path |-> p]}]

\* shutil.copy2 / shutil.move of source file f onto path p of target t: the
\* target gets the content and the modification time of the source, a move
\* removes the source
CopyOrMove(x, a, f, t, p) ==
    [x EXCEPT
       !.tgt = {y \in @ : ~(y.target = t /\ y.path = p)}
               \cup {[target |-> t, path |-> p,
                      content |-> x.src[f].content, mtime |-> x.src[f].mtime]},
       !.src = IF a.move THEN [@ EXCEPT ![f] = Absent] ELSE @,
       !.copied = @ \cup {[f |-> f, t |-> t, path |-> p]}]

\* an entry of to_import starts to execute: it is the k-th of the chunk
Begin(x, e) == [x EXCEPT !.k = @ + 1, !.began = @ \cup {e.f}]

\* insert and update_import of an Import-Update on the table fl
UpdateIndexOn(x, fl, e, inp) ==
    IF inp.fail = [at |-> "insert", idx |-> x.k] THEN [x EXCEPT !.files = fl, !.err = ErrOf("insert")]
    ELSE IF insert_raises(fl, e.t, e.h, e.old_path) THEN [x EXCEPT !.files = fl, !.err = IntegrityError]
    ELSE IF inp.fail = [at |-> "record", idx |-> x.k]
    THEN [x EXCEPT !.files = insert(fl, e.t, e.h, e.old_path, e.f), !.err = ErrOf("record")]
    ELSE [x EXCEPT !.files = insert(fl, e.t, e.h, e.old_path, e.f),
                   !.imports = update_import(@, e.t, e.f, e.h, e.old_path),
                   !.imported = @ + 1, !.took = @ \cup {e.f}]

\* the index part of an Import-Update, after the target was overwritten:
\* delete_by_hash when old_hash is not None, then insert and update_import
UpdateIndex(x, e, inp) ==
    UpdateIndexOn(x, IF e.old_hash # NullHash THEN delete_by_hash(x.files, e.t, e.old_hash)
                     ELSE x.files, e, inp)

\* Import-Update of entry e: when the recorded target still exists it is
\* overwritten in place and the index follows, else nothing is done
ApplyUpdate(x, a, e, inp) ==
    IF ~TargetExists(x.tgt, e.t, e.old_path) THEN [x EXCEPT !.k = @ + 1]
    ELSE IF ~x.src[e.f].exists \/ inp.fail = [at |-> "copy", idx |-> x.k + 1]
    THEN [Begin(x, e) EXCEPT !.err = ErrOf("copy")]
    ELSE UpdateIndex(CopyOrMove(Begin(x, e), a, e.f, e.t, e.old_path), e, inp)

\* variant: the source is recorded as imported as soon as it is copied
NewIndex_m(x, e, p, inp) ==
    IF inp.fail = [at |-> "insert", idx |-> x.k]
    THEN [x EXCEPT !.imports = record_import(@, e.t, e.f, e.h, p), !.err = ErrOf("insert")]
    ELSE IF insert_raises(x.files, e.t, e.h, p)
    THEN [x EXCEPT !.imports = record_import(@, e.t, e.f, e.h, p), !.err = IntegrityError]
    ELSE IF inp.fail = [at |-> "record", idx |-> x.k]
    THEN [x EXCEPT !.files = insert(@, e.t, e.h, p, e.f),
                   !.imports = record_import(@, e.t, e.f, e.h, p), !.err = ErrOf("record")]
    ELSE [x EXCEPT !.files = insert(@, e.t, e.h, p, e.f),
                   !.imports = record_import(@, e.t, e.f, e.h, p),
                   !.imported = @ + 1, !.took = @ \cup {e.f}]

\* variant: a copied file is counted but not indexed
NewIndex_u(x, e, p, inp) ==
    IF inp.fail = [at |-> "insert", idx |-> x.k] THEN [x EXCEPT !.err = ErrOf("insert")]
    ELSE IF inp.fail = [at |-> "record", idx |-> x.k] THEN [x EXCEPT !.err = ErrOf("record")]
    ELSE [x EXCEPT !.imported = @ + 1, !.took = @ \cup {e.f}]

\* the index part of an Import-New, after the file was copied to path p:
\* insert, record_import
NewIndex(x, e, p, inp) ==
    IF inp.fail = [at |-> "insert", idx |-> x.k] THEN [x EXCEPT !.err = ErrOf("insert")]
    ELSE IF insert_raises(x.files, e.t, e.h, p) THEN [x EXCEPT !.err = IntegrityError]
    ELSE IF inp.fail = [at |-> "record", idx |-> x.k]
    THEN [x EXCEPT !.files = insert(@, e.t, e.h, p, e.f), !.err = ErrOf("record")]
    ELSE [x EXCEPT !.files = insert(@, e.t, e.h, p, e.f),
                   !.imports = record_import(@, e.t, e.f, e.h, p),
                   !.imported = @ + 1, !.took = @ \cup {e.f}]

\* the file part of an Import-New to path p: mkdir of the parents, copy or move
PlaceNew(x, a, e, p, inp) ==
    IF ~x.src[e.f].exists \/ inp.fail = [at |-> "copy", idx |-> x.k + 1]
    THEN [Begin(x, e) EXCEPT !.roots = @ \cup {e.t}, !.err = ErrOf("copy")]
    ELSE NewIndex(CopyOrMove([Begin(x, e) EXCEPT !.roots = @ \cup {e.t}], a, e.f, e.t, p),
                  e, p, inp)

\* Import-New of entry e under directory name dirname: resolve_collision,
\* mkdir, copy or move, insert, record_import
ApplyNew(x, a, e, dirname, inp) ==
    PlaceNew(x, a, e, resolve_collision(x.tgt, e.t, <<dirname, DestName(e.f)>>), inp)

\* the loop over update_entries
RECURSIVE ApplyUpdates(_, _, _, _)
ApplyUpdates(x, a, es, inp) ==
    IF es = <<>> \/ x.err # NoErr THEN x
    ELSE ApplyUpdates(ApplyUpdate(x, a, Head(es), inp), a, Tail(es), inp)

\* the non-interactive loop over resolved_new
RECURSIVE ApplyNews(_, _, _, _)
ApplyNews(x, a, es, inp) ==
    IF es = <<>> \/ x.err # NoErr THEN x
    ELSE ApplyNews(ApplyNew(x, a, Head(es), suggest_dirname(Head(es).f), inp),
                   a, Tail(es), inp)

\* the answers to the prompt of a group, and the name typed as a replacement
GroupAnswers == {"", "s", "r"}
TypedName == 3

\* variant: the name the operator typed is ignored
effective_dirname_m(user_input, dirname) == dirname

\* effective_dirname: the answer to the prompt, or the suggestion when it is empty
effective_dirname(user_input, dirname) == IF user_input = "" THEN dirname ELSE TypedName

\* the preview of a prompt for a group of n files: the count, the names
\* listed and the "... +k more" that stands for the rest
file_list(n) == [count |-> n, names |-> IF n <= 5 THEN n ELSE 5,
                 more |-> IF n <= 5 THEN 0 ELSE n - 5]

\* the files of one interactive group, all placed under the effective dirname
RECURSIVE ApplyGroup(_, _, _, _, _)
ApplyGroup(x, a, es, dirname, inp) ==
    IF es = <<>> \/ x.err # NoErr THEN x
    ELSE ApplyGroup(ApplyNew(x, a, Head(es), dirname, inp), a, Tail(es), dirname, inp)

\* the directory names of resolved_new in order of first appearance (dict order)
RECURSIVE GroupKeys(_, _)
GroupKeys(es, seen) ==
    IF es = <<>> THEN <<>>
    ELSE LET d == suggest_dirname(Head(es).f) IN
         IF d \in seen THEN GroupKeys(Tail(es), seen)
         ELSE <<d>> \o GroupKeys(Tail(es), seen \cup {d})

\* interactive mode: one prompt per group; "s" skips the group, another
\* non-empty answer renames it, an empty answer accepts the suggestion
RECURSIVE ApplyGroups(_, _, _, _, _)
ApplyGroups(x, a, es, keys, inp) ==
    IF keys = <<>> \/ x.err # NoErr THEN x
    ELSE IF inp.grpAns[Head(keys)] = "s"
    THEN ApplyGroups([x EXCEPT !.prompts = @ + 1], a, es, Tail(keys), inp)
    ELSE ApplyGroups(
           ApplyGroup([x EXCEPT !.prompts = @ + 1], a,
                      SelectSeq(es, LAMBDA e : suggest_dirname(e.f) = Head(keys)),
                      effective_dirname(inp.grpAns[Head(keys)], Head(keys)), inp),
           a, es, Tail(keys), inp)

\* the audio loop over to_import: an update whose old target exists is applied
\* in place, everything else is imported as new
RECURSIVE ApplyAudio(_, _, _, _)
ApplyAudio(x, a, es, inp) ==
    IF es = <<>> \/ x.err # NoErr THEN x
    ELSE ApplyAudio(
           IF IsUpdate(Head(es)) /\ TargetExists(x.tgt, Head(es).t, Head(es).old_path)
           THEN ApplyUpdate(x, a, Head(es), inp)
           ELSE ApplyNew(x, a, Head(es), suggest_dirname(Head(es).f), inp),
           a, Tail(es), inp)

(* ------------------------------------------ importer.py: one whole chunk *)
\* the dry-run report: every entry of to_import is counted as imported
DryRunReport(x) ==
    [x EXCEPT !.imported = Len(x.to_import),
              !.took = {x.to_import[j].f : j \in 1..Len(x.to_import)}]

\* the new files of a photo/video chunk, after its updates: group prompts in
\* interactive mode, else one file after the other
ImportNews(x, a, news, inp) ==
    IF x.err # NoErr THEN x
    ELSE IF a.interactive /\ news # <<>>
    THEN ApplyGroups(x, a, news, GroupKeys(news, {}), inp)
    ELSE ApplyNews(x, a, news, inp)

\* a photo/video chunk after its hashing loop: nothing when to_import is
\* empty, the dry-run report, or the updates and then the new files
ExecutePhotoVideo(x, a, inp) ==
    IF x.err # NoErr \/ x.to_import = <<>> THEN x
    ELSE IF a.dry_run THEN DryRunReport(x)
    ELSE ImportNews(ApplyUpdates(x, a, SelectSeq(x.to_import, IsUpdate), inp), a,
                    SelectSeq(x.to_import, LAMBDA e : ~IsUpdate(e)), inp)

\* _import_photo_video_batch: extract_batch, the hashing loop, then the dry-run
\* report or the updates, the directory names and the new files
import_photo_video_batch(st, a, batch, inp) ==
    IF inp.fail.at = "extract" THEN [BatchStart(st) EXCEPT !.err = ErrOf("extract")]
    ELSE ExecutePhotoVideo(ScanLoop(BatchStart(st), a, batch, 1, inp), a, inp)

\* an audio chunk after its hashing loop
ExecuteAudio(x, a, inp) ==
    IF x.err # NoErr \/ x.to_import = <<>> THEN x
    ELSE IF a.dry_run THEN DryRunReport(x)
    ELSE ApplyAudio(x, a, x.to_import, inp)

\* _import_audio_batch: extract_audio_batch, the hashing loop with the
\* identification of every file, then the dry-run report or the import loop
import_audio_batch(st, a, batch, inp) ==
    IF inp.fail.at = "extract" THEN [BatchStart(st) EXCEPT !.err = ErrOf("extract")]
    ELSE ExecuteAudio(ScanLoop(BatchStart(st), a, batch, 1, inp), a, inp)

(* ------------------------------------------------- importer.py: the run *)
\* variant: the entry always names the photo/video phase
log_failure_m(log, rel_dir, media_type, batch, exc) ==
    Append(log, [source_dir |-> rel_dir, media_type |-> "photo_video", files |-> batch,
                 error_type |-> exc.type, error_message |-> exc.msg])

\* _log_failure: one entry appended to import_failures.jsonl
log_failure(log, rel_dir, media_type, batch, exc) ==
    Append(log, [source_dir |-> rel_dir, media_type |-> media_type, files |-> batch,
                 error_type |-> exc.type, error_message |-> exc.msg])

\* variant: a batch that raised stays at the head of the list and is tried again
NextBatches_m(bs, exc) == IF exc # NoErr THEN bs ELSE Tail(bs)

\* the for loop over the batches goes on to the next batch, also after an exception
NextBatches(bs, exc) == Tail(bs)

\* what a chunk leaves behind: the file operations are not undone and every
\* HashDB statement commits on its own, so the state the chunk reached when it
\* returned or raised (r) is the state of the run, whatever it was before (st)
\* variant: a chunk that raises is rolled back as a whole
Committed_m(st, r) ==
    IF r.err # NoErr THEN st
    ELSE [src |-> r.src, tgt |-> r.tgt, roots |-> r.roots, files |-> r.files,
          imports |-> r.imports, cache |-> r.cache]

Committed(st, r) ==
    [src |-> r.src, tgt |-> r.tgt, roots |-> r.roots, files |-> r.files,
     imports |-> r.imports, cache |-> r.cache]

\* variant: the except clause forgets to count
CountFailure_m(n) == n

\* the except clause counts the batch as failed
CountFailure(n) == n + 1

\* the warning at the end of run_import is issued when failures is non-zero
WarnIf(n) == n # 0

ArgSets == [dry_run : BOOLEAN, move : BOOLEAN, update : BOOLEAN,
            interactive : BOOLEAN, identify : BOOLEAN]
IdleArgs == [dry_run |-> FALSE, move |-> FALSE, update |-> FALSE,
             interactive |-> FALSE, identify |-> FALSE]
ZeroTotals == [imported |-> 0, skipped |-> 0, failures |-> 0]

State == [src |-> src, tgt |-> tgt, roots |-> roots, files |-> files,
          imports |-> imports, cache |-> cache]

\* the points at which the environment can make a chunk raise
FailPoints(n) ==
    {[at |-> "extract", idx |-> 0]}
    \cup [at : {"hash", "copy", "insert", "record"}, idx : 1..n]

\* what the environment feeds one chunk: an injected failure, the answers to the
\* update prompts and to the group prompts, the outcome of the fingerprinting;
\* an answer nobody can be asked for is left at its default (only a file of the
\* chunk with an ImportRecord can be asked about, only a directory name of the
\* chunk can be prompted, only an audio file is fingerprinted)
Inputs(a, batch) ==
    LET asked == {f \in SeqToSet(batch) : source_path_imported(imports, TargetOf(f), f)}
        named == {suggest_dirname(f) : f \in SeqToSet(batch)}
    IN
    [fail : {NoFail} \cup (IF hist.injected < MaxFailures THEN FailPoints(Len(batch)) ELSE {}),
     updAns : IF a.interactive
              THEN {u \in [FileIds -> {"y", "n"}] : \A f \in FileIds \ asked : u[f] = "n"}
              ELSE {[f \in FileIds |-> "n"]},
     grpAns : IF a.interactive /\ classify(Head(batch)) # "audio"
              THEN {g \in [1..2 -> GroupAnswers] : \A d \in (1..2) \ named : g[d] = ""}
              ELSE {[d \in 1..2 |-> ""]},
     fpOk : IF a.identify /\ classify(Head(batch)) = "audio" THEN BOOLEAN ELSE {FALSE}]

\* the source trees a behaviour starts from: the two a.jpg exist, b.jpg may be
\* absent, the pictures have any of the contents (up to renaming the contents,
\* d/a.jpg has the first), the two audio files differ and are there together
\* or not at all; d/a.jpg is the youngest file
InitMtime(f) == IF f = 1 THEN 2 ELSE 1
SourceTrees ==
    {s \in [AllFiles -> {Absent} \cup [exists : {TRUE}, content : OldContents, mtime : 1..2]] :
        /\ \A f \in FileIds : s[f].exists => s[f].mtime = InitMtime(f)
        /\ \A f \in AllFiles \ FileIds : ~s[f].exists
        /\ s[1].exists /\ s[3].exists /\ s[1].content = 1
        /\ s[4].exists => s[4].content = 1
        /\ s[5].exists <=> s[4].exists
        /\ s[5].exists => s[5].content = 2}

\* the last direct call of a HashDB method: its number, name and arguments
NoCall == [n |-> 0, op |-> "none", t |-> "", h |-> NullHash, p |-> NullPath, s |-> 0,
           err |-> NoErr, d |-> "", ret |-> 0]

NoLast == [err |-> NoErr, fail |-> NoFail, k |-> 0, began |-> {}, took |-> {},
           passed |-> {}, to_import |-> <<>>, files |-> <<>>, prompts |-> 0,
           updAns |-> [f \in FileIds |-> "n"], grpAns |-> [d \in 1..2 |-> ""]]

\* the source trees of the specification of the non-interactive runs: every
\* file is there, b.jpg has a content of its own, the two a.jpg are equal or not
LeanTrees == {s \in SourceTrees : s[2].exists /\ s[2].content = 2 /\ s[4].exists}

\* no run has been ended by an exception that left run_import
NoFatal == [n |-> 0, phase |-> "", err |-> NoErr]

\* no function of the grouping or of the hasher has been applied
NoFn == [input |-> <<>>, size |-> 0, groups |-> <<>>, done |-> <<>>, ok |-> TRUE,
         out |-> <<>>]

\* the state before the first run; spent is the number of exceptions the
\* environment has used up of its MaxFailures
InitOf(trees, spent) ==
    /\ src \in trees
    /\ tgt = {}
    /\ roots = {}
    /\ files = {}
    /\ imports = {}
    /\ cache = {}
    /\ failureLog = <<>>
    /\ args = IdleArgs
    /\ pc = "idle"
    /\ batches = <<>>
    /\ audioFiles = <<>>
    /\ totals = ZeroTotals
    /\ failures = 0
    /\ summary = [failures |-> 0, warned |-> FALSE]
    /\ hist = [runs |-> 0, edits |-> 0, injected |-> spent,
               start |-> [src |-> src, tgt |-> {}, roots |-> {}, files |-> {},
                          imports |-> {}, cache |-> {}],
               copied |-> {}, took |-> {}, passed |-> {},
               raised |-> 0, attempted |-> 0, last |-> NoLast, prevOk |-> FALSE,
               call |-> NoCall, fn |-> NoFn, fatal |-> NoFatal]

\* the loop of a phase is entered with the batches bs of its files; unless
\* dry_run the target roots of the phase are made first
EnterPhase(a, phase, made, bs) ==
    /\ pc' = phase
    /\ roots' = IF a.dry_run THEN roots ELSE roots \cup made
    /\ batches' = bs

\* run_import after the scan: _import_photo_video up to its loop, or, when it
\* has nothing to do, _import_audio likewise, or the report
DispatchOf(a, result, photoSize, audioSize) ==
    /\ args' = a
    /\ audioFiles' = result.audios
    /\ IF result.photos \o result.videos # <<>>
       THEN EnterPhase(a, "photo", {"img", "vid"},
                       iter_batches(group_by_source_dir(result.photos \o result.videos),
                                    photoSize))
       ELSE IF result.audios # <<>>
       THEN EnterPhase(a, "audio", {"aud"},
                       iter_batches(group_by_source_dir(result.audios), audioSize))
       ELSE pc' = "report" /\ roots' = roots /\ batches' = <<>>

\* run_import up to the first phase: scan, then the dispatch to the phases
StartRunSized(menu, maxRuns, photoSize, audioSize) ==
    /\ pc = "idle"
    /\ hist.runs < maxRuns
    /\ \E a \in menu : DispatchOf(a, scan(src), photoSize, audioSize)
    /\ hist' = [hist EXCEPT !.start = State, !.copied = {}, !.took = {},
                            !.passed = {}, !.raised = 0, !.attempted = 0,
                            !.last = NoLast]
    /\ totals' = ZeroTotals
    /\ failures' = 0
    /\ UNCHANGED <<src, tgt, files, imports, cache, failureLog, summary>>

StartRunOf(menu, maxRuns) == StartRunSized(menu, maxRuns, PhotoBatchSize, AudioBatchSize)

\* the batch function of a phase
import_batch(media, st, a, batch, inp) ==
    IF media = "audio" THEN import_audio_batch(st, a, batch, inp)
    ELSE import_photo_video_batch(st, a, batch, inp)

\* the state of the run becomes what the chunk left behind
Persist(after) ==
    /\ src' = after.src
    /\ tgt' = after.tgt
    /\ roots' = after.roots
    /\ files' = after.files
    /\ imports' = after.imports
    /\ cache' = after.cache

\* the try/except around a chunk b that ended as r: the counters are added, or
\* the failure is counted and logged; then the loop goes on
Settle(media, b, inp, r) ==
    /\ inp.fail # NoFail => r.err = ErrOf(inp.fail.at)
    /\ Persist(Committed(State, r))
    /\ IF r.err = NoErr
       THEN /\ totals' = [totals EXCEPT !.imported = @ + r.imported,
                                        !.skipped = @ + r.skipped]
            /\ failureLog' = failureLog
       ELSE /\ totals' = [totals EXCEPT !.failures = CountFailure(@)]
            /\ failureLog' = log_failure(failureLog, b.dir, media, b.files, r.err)
    /\ batches' = NextBatches(batches, r.err)
    /\ hist' = [hist EXCEPT
          !.injected = IF inp.fail # NoFail THEN @ + 1 ELSE @,
          !.copied = @ \cup r.copied,
          !.took = IF r.err = NoErr THEN @ \cup r.took ELSE @,
          !.passed = IF r.err = NoErr THEN @ \cup r.passed ELSE @,
          !.raised = IF r.err # NoErr THEN @ + 1 ELSE @,
          !.attempted = @ + 1,
          !.last = [err |-> r.err, fail |-> inp.fail, k |-> r.k,
                    began |-> r.began, took |-> r.took,
                    passed |-> r.passed, to_import |-> r.to_import,
                    files |-> b.files, prompts |-> r.prompts,
                    updAns |-> inp.updAns, grpAns |-> inp.grpAns]]

\* one iteration of the loop over the batches of a phase, with its try/except
ImportBatch(media) ==
    /\ batches # <<>>
    /\ \E inp \in Inputs(args, Head(batches).files) :
         Settle(media, Head(batches), inp,
                import_batch(media, State, args, Head(batches).files, inp))
    /\ UNCHANGED <<args, pc, audioFiles, failures, summary>>

ImportPhotoVideoBatch == pc = "photo" /\ ImportBatch("photo_video")

ImportAudioBatch == pc = "audio" /\ ImportBatch("audio")

\* the end of _import_photo_video and, when audio files were found, the start of
\* _import_audio
FinishPhotoVideo ==
    /\ pc = "photo"
    /\ batches = <<>>
    /\ failures' = failures + totals.failures
    /\ IF audioFiles # <<>>
       THEN /\ pc' = "audio"
            /\ roots' = IF args.dry_run THEN roots ELSE roots \cup {"aud"}
            /\ batches' = iter_batches(group_by_source_dir(audioFiles), AudioBatchSize)
       ELSE /\ pc' = "report"
            /\ roots' = roots
            /\ batches' = <<>>
    /\ totals' = ZeroTotals
    /\ UNCHANGED <<src, tgt, files, imports, cache, failureLog, args, audioFiles,
                   summary, hist>>

\* the end of _import_audio
FinishAudio ==
    /\ pc = "audio"
    /\ batches = <<>>
    /\ failures' = failures + totals.failures
    /\ pc' = "report"
    /\ totals' = ZeroTotals
    /\ UNCHANGED <<src, tgt, roots, files, imports, cache, failureLog, args, audioFiles,
                   batches, summary, hist>>

\* the end of run_import: the failure count, and the warning when it is non-zero
Report ==
    /\ pc = "report"
    /\ summary' = [failures |-> failures, warned |-> WarnIf(failures)]
    /\ pc' = "idle"
    /\ args' = IdleArgs
    /\ audioFiles' = <<>>
    /\ hist' = [hist EXCEPT !.runs = @ + 1, !.prevOk = (hist.raised = 0),
                            !.start = State, !.copied = {}, !.took = {}, !.passed = {},
                            !.raised = 0, !.attempted = 0, !.last = NoLast]
    /\ UNCHANGED <<src, tgt, roots, files, imports, cache, failureLog, batches, totals,
                   failures>>

\* a time later than every time stamp so far
Now == 1 + Max({src[g].mtime : g \in AllFiles} \cup {y.mtime : y \in tgt})

\* while no run is in progress and one is still to come the operator rewrites
\* or adds a source file; its modification time is later than every time stamp
\* so far
EditSourceOf(minRuns, maxRuns, editable, written) ==
    /\ pc = "idle"
    /\ hist.runs >= minRuns /\ hist.runs < maxRuns
    /\ hist.edits < MaxEdits
    /\ \E f \in editable, c \in written :
         src' = [src EXCEPT ![f] = [exists |-> TRUE, content |-> c, mtime |-> Now]]
    /\ hist' = [hist EXCEPT !.edits = @ + 1, !.prevOk = FALSE,
                            !.start = [@ EXCEPT !.src = src']]
    /\ UNCHANGED <<tgt, roots, files, imports, cache, failureLog, args, pc, batches,
                   audioFiles, totals, failures, summary>>

\* the flag combinations of the real non-interactive runs without
\* identification: plain copy, copy with --update, move with --update
BatchArgs == {a \in ArgSets : /\ ~a.interactive /\ ~a.identify /\ ~a.dry_run
                              /\ a.move => a.update}

Init == InitOf(LeanTrees, 0)

StartRun == StartRunOf(BatchArgs, MaxRuns)

\* an edit writes new content to a picture or to an audio file
EditSource == EditSourceOf(1, MaxRuns, {1, 4}, {3})

Next ==
    \/ StartRun
    \/ ImportPhotoVideoBatch
    \/ ImportAudioBatch
    \/ FinishPhotoVideo
    \/ FinishAudio
    \/ Report
    \/ EditSource

Spec == Init /\ [][Next]_vars

\* every flag combination, with the prompts answered by the operator
MaxAllRuns == 1
StartRunAll == StartRunOf(ArgSets, MaxAllRuns)

InitAll == InitOf(SourceTrees, 0)

EditSourceAll == EditSourceOf(0, MaxAllRuns, FileIds, OldContents)

NextAll ==
    \/ StartRunAll
    \/ ImportPhotoVideoBatch
    \/ ImportAudioBatch
    \/ FinishPhotoVideo
    \/ FinishAudio
    \/ Report
    \/ EditSourceAll

SpecAll == InitAll /\ [][NextAll]_vars

\* the same command line run again and again: copy mode with --update
MaxReruns == 3
RerunArgs == {[IdleArgs EXCEPT !.update = TRUE]}

StartRerun == StartRunOf(RerunArgs, MaxReruns)

EditSourceRerun == EditSourceOf(1, MaxReruns, FileIds, OldContents)

NextRerun ==
    \/ StartRerun
    \/ ImportPhotoVideoBatch
    \/ ImportAudioBatch
    \/ FinishPhotoVideo
    \/ FinishAudio
    \/ Report
    \/ EditSourceRerun

SpecRerun == InitAll /\ [][NextRerun]_vars

\* copy-mode runs with and without prompts and with and without --update
AskArgs == {a \in ArgSets : ~a.dry_run /\ ~a.identify /\ ~a.move}

\* the runs with prompts are not disturbed by exceptions
InitAsk == InitOf(LeanTrees, MaxFailures)

StartRunAsk == StartRunOf(AskArgs, MaxRuns)

NextAsk ==
    \/ StartRunAsk
    \/ ImportPhotoVideoBatch
    \/ ImportAudioBatch
    \/ FinishPhotoVideo
    \/ FinishAudio
    \/ Report
    \/ EditSource

SpecAsk == InitAsk /\ [][NextAsk]_vars

\* between two runs the operator puts other content into a source file and
\* keeps its modification time (a copy that preserves the time stamps)
RewriteKeepingMtime ==
    /\ pc = "idle"
    /\ hist.runs >= 1 /\ hist.runs < MaxRuns
    /\ hist.edits < MaxEdits
    /\ \E f \in {1, 4} :
         /\ src[f].exists /\ src[f].content # 3
         /\ src' = [src EXCEPT ![f].content = 3]
    /\ hist' = [hist EXCEPT !.edits = @ + 1, !.prevOk = FALSE,
                            !.start = [@ EXCEPT !.src = src']]
    /\ UNCHANGED <<tgt, roots, files, imports, cache, failureLog, args, pc, batches,
                   audioFiles, totals, failures, summary>>

\* between two runs the operator removes a file from a target tree
RemoveTarget ==
    /\ pc = "idle"
    /\ hist.runs >= 1 /\ hist.runs < MaxRuns
    /\ hist.edits < MaxEdits
    /\ \E y \in tgt : tgt' = tgt \ {y}
    /\ hist' = [hist EXCEPT !.edits = @ + 1, !.prevOk = FALSE,
                            !.start = [@ EXCEPT !.tgt = tgt']]
    /\ UNCHANGED <<src, roots, files, imports, cache, failureLog, args, pc, batches,
                   audioFiles, totals, failures, summary>>

\* copy-mode runs without prompts, with and without --update, over a source
\* and a target the operator changes between the runs
StaleArgs == {a \in AskArgs : ~a.interactive}

StartRunStale == StartRunOf(StaleArgs, MaxRuns)

NextStale ==
    \/ StartRunStale
    \/ ImportPhotoVideoBatch
    \/ ImportAudioBatch
    \/ FinishPhotoVideo
    \/ FinishAudio
    \/ Report
    \/ EditSource
    \/ RewriteKeepingMtime
    \/ RemoveTarget

SpecStale == Init /\ [][NextStale]_vars

\* the first run over a tree: copy or move, with or without prompts
FirstArgs == {a \in ArgSets : ~a.dry_run /\ ~a.identify /\ ~a.update}

StartRunFirst == /\ hist.runs = 0
                 /\ StartRunOf(FirstArgs, MaxRuns)

NextFirst ==
    \/ StartRunFirst
    \/ ImportPhotoVideoBatch
    \/ ImportAudioBatch
    \/ FinishPhotoVideo
    \/ FinishAudio
    \/ Report

SpecFirst == Init /\ [][NextFirst]_vars

(* ------------------------------------------ hashdb.py: the methods called *)
MaxCalls == 3         \* direct calls of HashDB methods in one behaviour

\* the arguments of the calls: two targets, two hashes, two paths, two sources
DbTargets == {"img", "aud"}
DbHashes == 1..2
DbPaths == {<<1, 1>>, <<1, 2>>}
DbSources == 1..2

\* the file_path of an import record may be None
DbImportPaths == {<<1, 1>>, NullPath}

\* a call is noted with its arguments and the exception it raised
Called(op, t, h, p, s, err) ==
    /\ hist.call.n < MaxCalls
    /\ hist' = [hist EXCEPT !.call = [n |-> hist.call.n + 1, op |-> op, t |-> t, h |-> h,
                                      p |-> p, s |-> s, err |-> err, d |-> "", ret |-> 0]]
    /\ tgt' = tgt
    /\ UNCHANGED <<src, roots, cache, failureLog, args, pc, batches, audioFiles,
                   totals, failures, summary>>

\* HashDB(t).insert(hash=h, file_path=p, source_path=s)
DbInsert(D) ==
    \E t \in D.targets, h \in D.hashes, p \in D.paths, s \in D.sources :
        /\ files' = try_insert(files, t, h, p, s).files
        /\ imports' = imports
        /\ Called("insert", t, h, p, s, try_insert(files, t, h, p, s).err)

\* HashDB(t).delete_by_path(p)
DbDeleteByPath(D) ==
    \E t \in D.targets, p \in D.paths :
        /\ files' = delete_by_path(files, t, p)
        /\ imports' = imports
        /\ Called("delete_by_path", t, NullHash, p, 0, NoErr)

\* HashDB(t).delete_by_hash_and_path(h, p)
DbDeleteByHashAndPath(D) ==
    \E t \in D.targets, h \in D.hashes, p \in D.paths :
        /\ files' = delete_by_hash_and_path(files, t, h, p)
        /\ imports' = imports
        /\ Called("delete_by_hash_and_path", t, h, p, 0, NoErr)

\* HashDB(t).record_import(s, h, p); file_path may be None
DbRecordImport(D) ==
    \E t \in D.targets, h \in D.hashes, p \in D.importPaths, s \in D.sources :
        /\ imports' = record_import(imports, t, s, h, p)
        /\ files' = files
        /\ Called("record_import", t, h, p, s, NoErr)

\* HashDB(t).update_import(s, h, p)
DbUpdateImport(D) ==
    \E t \in D.targets, h \in D.hashes, p \in D.importPaths, s \in D.sources :
        /\ imports' = update_import(imports, t, s, h, p)
        /\ files' = files
        /\ Called("update_import", t, h, p, s, NoErr)

\* the paths of the files put into a target tree: a/a.jpg and .h/a.jpg
DbTreePaths == {<<1, 1>>, <<0, 1>>}

\* HashDB(t).rebuild(d); the command line passes the handle's own directory
DbRebuild(D) ==
    \E t \in D.targets, d \in D.targets :
        /\ hist.call.n < MaxCalls
        /\ files' = rebuild(files, tgt, t, d)
        /\ imports' = imports
        /\ hist' = [hist EXCEPT !.call = [NoCall EXCEPT !.n = hist.call.n + 1,
                                  !.op = "rebuild", !.t = t, !.d = d,
                                  !.ret = Cardinality(Indexed(tgt, d))]]
        /\ UNCHANGED <<src, tgt, roots, cache, failureLog, args, pc, batches, audioFiles,
                       totals, failures, summary>>

\* somebody writes a file into a target tree, or over the file of that path
DbPutFile(D) ==
    \E t \in D.targets, p \in DbTreePaths, c \in D.hashes :
        /\ hist.call.n < MaxCalls
        /\ tgt' = {y \in tgt : ~(y.target = t /\ y.path = p)}
                      \cup {[target |-> t, path |-> p, content |-> c, mtime |-> 1]}
        /\ hist' = [hist EXCEPT !.call = [NoCall EXCEPT !.n = hist.call.n + 1,
                                  !.op = "put", !.t = t, !.p = p, !.h = c]]
        /\ UNCHANGED <<src, roots, files, imports, cache, failureLog, args, pc, batches,
                       audioFiles, totals, failures, summary>>

\* the arguments of the calls made on their own
DbArgs == [targets |-> DbTargets, hashes |-> DbHashes, paths |-> DbPaths,
           importPaths |-> DbImportPaths, sources |-> DbSources]

NextDb ==
    \/ DbInsert(DbArgs)
    \/ DbDeleteByPath(DbArgs)
    \/ DbDeleteByHashAndPath(DbArgs)
    \/ DbRecordImport(DbArgs)
    \/ DbUpdateImport(DbArgs)
    \/ DbRebuild(DbArgs)
    \/ DbPutFile(DbArgs)

\* the calls are made on the empty tables of new targets
InitDb == InitOf({s \in LeanTrees : s[3].content = 1}, 0)

SpecDb == InitDb /\ [][NextDb]_vars

(* ------------------------- runs after a source was given a content of the index *)
\* an edit gives a picture or an audio file a content that another file of
\* the tree has, or a new one
EditSourceTwin == EditSourceOf(1, MaxRuns, {1, 4}, Contents)

NextTwin ==
    \/ StartRunStale
    \/ ImportPhotoVideoBatch
    \/ ImportAudioBatch
    \/ FinishPhotoVideo
    \/ FinishAudio
    \/ Report
    \/ EditSourceTwin

SpecTwin == Init /\ [][NextTwin]_vars

(* -------- runs over two audio files with one destination name in one chunk *)
\* the operator rewrites sources and removes target files between the runs
MaxShareRuns == 3
MaxShareEdits == 4
ShareBatchSize == 2

\* s.mp3 alone; t.mp3 is added later
ShareTrees ==
    {[f \in AllFiles |-> IF f = 4 THEN [exists |-> TRUE, content |-> 1, mtime |-> 1]
                         ELSE Absent]}

InitShare == InitOf(ShareTrees, MaxFailures)

StartRunShare == StartRunSized(RerunArgs, MaxShareRuns, PhotoBatchSize, ShareBatchSize)

\* the operator rewrites or adds one of the two audio files
EditSourceShare ==
    /\ pc = "idle"
    /\ hist.runs >= 1 /\ hist.runs < MaxShareRuns
    /\ hist.edits < MaxShareEdits
    /\ \E f \in {4, 5}, c \in 2..3 :
         src' = [src EXCEPT ![f] = [exists |-> TRUE, content |-> c, mtime |-> Now]]
    /\ hist' = [hist EXCEPT !.edits = @ + 1, !.prevOk = FALSE,
                            !.start = [@ EXCEPT !.src = src']]
    /\ UNCHANGED <<tgt, roots, files, imports, cache, failureLog, args, pc, batches,
                   audioFiles, totals, failures, summary>>

\* the operator removes a file from the target tree
RemoveTargetShare ==
    /\ pc = "idle"
    /\ hist.runs >= 1 /\ hist.runs < MaxShareRuns
    /\ hist.edits < MaxShareEdits
    /\ \E y \in tgt : tgt' = tgt \ {y}
    /\ hist' = [hist EXCEPT !.edits = @ + 1, !.prevOk = FALSE,
                            !.start = [@ EXCEPT !.tgt = tgt']]
    /\ UNCHANGED <<src, roots, files, imports, cache, failureLog, args, pc, batches,
                   audioFiles, totals, failures, summary>>

NextShare ==
    \/ StartRunShare
    \/ ImportAudioBatch
    \/ FinishAudio
    \/ Report
    \/ EditSourceShare
    \/ RemoveTargetShare

SpecShare == InitShare /\ [][NextShare]_vars

(* ------ runs, source edits and rebuilds: nobody else writes to the targets *)
MaxKeepRuns == 3
MaxKeepEdits == 2
MaxRebuilds == 1

\* d/a.jpg, a.jpg with the second content and s.mp3
KeepTrees ==
    {[f \in AllFiles |-> IF f \in {1, 4} THEN [exists |-> TRUE, content |-> 1, mtime |-> 1]
                         ELSE IF f = 3 THEN [exists |-> TRUE, content |-> 2, mtime |-> 1]
                         ELSE Absent]}

InitKeep == InitOf(KeepTrees, 0)

StartRunKeep == StartRunOf(StaleArgs, MaxKeepRuns)

\* the operator rewrites a source file
EditSourceKeep ==
    /\ pc = "idle"
    /\ hist.runs >= 1 /\ hist.runs < MaxKeepRuns
    /\ hist.edits < MaxKeepEdits
    /\ \E f \in {1, 4}, c \in Contents :
         src' = [src EXCEPT ![f] = [exists |-> TRUE, content |-> c, mtime |-> Now]]
    /\ hist' = [hist EXCEPT !.edits = @ + 1, !.prevOk = FALSE,
                            !.start = [@ EXCEPT !.src = src']]
    /\ UNCHANGED <<tgt, roots, files, imports, cache, failureLog, args, pc, batches,
                   audioFiles, totals, failures, summary>>

\* cmd_hashdb between two runs: the index of a target is rebuilt from its tree
RebuildKeep ==
    /\ pc = "idle"
    /\ hist.runs >= 1 /\ hist.runs < MaxKeepRuns
    /\ hist.call.n < MaxRebuilds
    /\ \E t \in Targets :
         /\ files' = rebuild(files, tgt, t, t)
         /\ hist' = [hist EXCEPT !.prevOk = FALSE,
                                 !.start = [@ EXCEPT !.files = files'],
                                 !.call = [NoCall EXCEPT !.n = hist.call.n + 1,
                                           !.op = "rebuild", !.t = t, !.d = t,
                                           !.ret = Cardinality(Indexed(tgt, t))]]
    /\ UNCHANGED <<src, tgt, roots, imports, cache, failureLog, args, pc, batches,
                   audioFiles, totals, failures, summary>>

NextKeep ==
    \/ StartRunKeep
    \/ ImportPhotoVideoBatch
    \/ ImportAudioBatch
    \/ FinishPhotoVideo
    \/ FinishAudio
    \/ Report
    \/ EditSourceKeep
    \/ RebuildKeep

SpecKeep == InitKeep /\ [][NextKeep]_vars

(* ------------------------------------- a run that is left to run to its end *)
\* run_import is one sequential process: once started, the loops over the
\* batches, the change of phase and the report go on until it returns; the
\* operator is free to start a run or not
MaxLiveRuns == 1

StartRunLive == StartRunOf(BatchArgs, MaxLiveRuns)

NextLive ==
    \/ StartRunLive
    \/ ImportPhotoVideoBatch
    \/ ImportAudioBatch
    \/ FinishPhotoVideo
    \/ FinishAudio
    \/ Report

\* the for loop of a phase goes on to its next iteration: the step of NextLive
\* that takes the head off the list of batches of the running phase, which is
\* ImportPhotoVideoBatch or ImportAudioBatch and is enabled whenever the list
\* of the phase is not empty
TakeBatch == pc \in {"photo", "audio"} /\ batches # <<>> /\ batches' = Tail(batches)

SpecLive ==
    /\ Init /\ [][NextLive]_vars
    /\ WF_batches(TakeBatch)
    /\ WF_vars(FinishPhotoVideo) /\ WF_vars(FinishAudio) /\ WF_vars(Report)

(* --------------------------------------------------------- musicbrainz.py *)
MaxIdentify == 4      \* calls of identify_audio in one behaviour

\* the file hashes identify_audio is called with
IdentifyHashes == 1..3

\* what the external steps of one call would give: the fingerprint succeeds,
\* AcoustID knows a recording, MusicBrainz returns its metadata
IdentifyOutcomes == [fp : BOOLEAN, recording : BOOLEAN, meta : BOOLEAN]

\* variant: the cache is not consulted
identify_audio_call_m(c, key, h, o) ==
    IF ~key THEN [cache |-> c, fingerprints |-> 0, lookups |-> 0, stored |-> "none"]
    ELSE IF ~o.fp THEN [cache |-> c, fingerprints |-> 1, lookups |-> 0, stored |-> "none"]
    ELSE [cache |-> c \cup {h}, fingerprints |-> 1,
          lookups |-> IF o.recording THEN 2 ELSE 1,
          stored |-> IF o.recording /\ o.meta THEN "fields" ELSE "nulls"]

\* identify_audio(path, meta, api_key=key, file_hash=h, db=db) on the cache c:
\* the cache after the call, the fingerprint_audio calls made, the external
\* lookups made (lookup_acoustid, then lookup_musicbrainz when a recording was
\* found), and the entry stored for h: none, one with the looked-up fields,
\* or one whose fields are null
identify_audio_call(c, key, h, o) ==
    IF ~key THEN [cache |-> c, fingerprints |-> 0, lookups |-> 0, stored |-> "none"]
    ELSE IF h \in c THEN [cache |-> c, fingerprints |-> 0, lookups |-> 0, stored |-> "none"]
    ELSE IF ~o.fp THEN [cache |-> c, fingerprints |-> 1, lookups |-> 0, stored |-> "none"]
    ELSE [cache |-> identify_audio(c, h, o.fp), fingerprints |-> 1,
          lookups |-> IF o.recording THEN 2 ELSE 1,
          stored |-> IF o.recording /\ o.meta THEN "fields" ELSE "nulls"]

\* one call of identify_audio with a database handle and a file hash; the
\* hashes whose fingerprint has succeeded in a call are remembered
Identify ==
    /\ hist.call.n < MaxIdentify
    /\ \E key \in BOOLEAN, h \in IdentifyHashes, o \in IdentifyOutcomes :
         \E r \in {identify_audio_call(cache, key, h, o)} :
            /\ cache' = r.cache
            /\ hist' = [hist EXCEPT
                  !.call = [NoCall EXCEPT !.n = hist.call.n + 1, !.op = "identify",
                                          !.h = h, !.s = IF key THEN 1 ELSE 0,
                                          !.d = r.stored,
                                          !.ret = r.fingerprints * 10 + r.lookups],
                  !.fn.out = IF r.fingerprints = 1 /\ o.fp THEN Append(@, h) ELSE @]
    /\ UNCHANGED <<src, tgt, roots, files, imports, failureLog, args, pc, batches,
                   audioFiles, totals, failures, summary>>

NextIdentify == Identify

SpecIdentify == InitDb /\ [][NextIdentify]_vars

(* ------------------------------------------- runs whose index cannot be opened *)
MaxFatal == 1         \* runs in which HashDB(...) raises

\* what HashDB.__init__ raises when sqlite3.connect or the schema script fails
OpenError == [type |-> "OperationalError", msg |-> "open"]

\* variant: the failure to open the index is caught like the failure of a
\* chunk, logged, and the run goes on to its report
OpenFails_m(a, made, media, h) ==
    /\ hist.fatal.n < MaxFatal
    /\ roots' = IF a.dry_run THEN roots ELSE roots \cup made
    /\ pc' = "report"
    /\ args' = a
    /\ batches' = <<>>
    /\ audioFiles' = <<>>
    /\ totals' = ZeroTotals
    /\ failureLog' = log_failure(failureLog, <<>>, media, <<>>, OpenError)
    /\ hist' = [h EXCEPT !.fatal = [n |-> @.n + 1, phase |-> media, err |-> OpenError]]
    /\ UNCHANGED <<src, tgt, files, imports, cache, summary>>

\* _import_photo_video or _import_audio up to HashDB(...), which raises: the
\* target roots are made unless dry_run, then the exception leaves the
\* function and run_import, which has no handler; the process ends; h is the
\* bookkeeping of the run so far
OpenFails(a, made, media, h) ==
    /\ hist.fatal.n < MaxFatal
    /\ roots' = IF a.dry_run THEN roots ELSE roots \cup made
    /\ pc' = "idle"
    /\ args' = IdleArgs
    /\ batches' = <<>>
    /\ audioFiles' = <<>>
    /\ totals' = ZeroTotals
    /\ failureLog' = failureLog
    /\ hist' = [h EXCEPT !.runs = @ + 1, !.prevOk = FALSE,
                         !.fatal = [n |-> @.n + 1, phase |-> media, err |-> OpenError]]
    /\ UNCHANGED <<src, tgt, files, imports, cache, summary>>

\* the bookkeeping of a run that begins
RunStart == [hist EXCEPT !.start = State, !.copied = {}, !.took = {}, !.passed = {},
                         !.raised = 0, !.attempted = 0, !.last = NoLast]

\* run_import whose first phase cannot open its index
StartRunFatal ==
    /\ pc = "idle"
    /\ hist.runs < MaxRuns
    /\ \E a \in BatchArgs :
         LET result == scan(src) IN
         /\ result.photos \o result.videos \o result.audios # <<>>
         /\ IF result.photos \o result.videos # <<>>
            THEN OpenFails(a, {"img", "vid"}, "photo_video", RunStart)
            ELSE OpenFails(a, {"aud"}, "audio", RunStart)
    /\ failures' = 0

\* the photo/video phase has returned and _import_audio cannot open its index
FinishPhotoVideoFatal ==
    /\ pc = "photo"
    /\ batches = <<>>
    /\ audioFiles # <<>>
    /\ failures' = failures + totals.failures
    /\ OpenFails(args, {"aud"}, "audio", hist)

NextFatal ==
    \/ StartRun
    \/ ImportPhotoVideoBatch
    \/ ImportAudioBatch
    \/ FinishPhotoVideo
    \/ FinishAudio
    \/ Report
    \/ StartRunFatal
    \/ FinishPhotoVideoFatal

SpecFatal == Init /\ [][NextFatal]_vars

(* ------------------------------------------ first runs with group prompts *)
\* the trees of the runs with group prompts: d/a.jpg, a.jpg and z.jpg have
\* three contents, d/b.jpg is absent or has the content of a.jpg or of z.jpg,
\* the audio files are there or not
GroupTrees ==
    {s \in [AllFiles -> {Absent} \cup [exists : {TRUE}, content : Contents, mtime : 1..2]] :
        /\ \A f \in AllFiles : s[f].exists => s[f].mtime = InitMtime(f)
        /\ s[1].exists /\ s[1].content = 3
        /\ s[3].exists /\ s[3].content = 1
        /\ s[6].exists /\ s[6].content = 2
        /\ s[2].exists => s[2].content \in OldContents
        /\ s[4].exists => s[4].content = 1
        /\ s[5].exists <=> s[4].exists
        /\ s[5].exists => s[5].content = 2}

\* the flag combinations of a first run with --interactive
GroupArgs == {a \in ArgSets : a.interactive /\ ~a.identify /\ ~a.update}

StartRunGroups == /\ hist.runs = 0
                  /\ StartRunOf(GroupArgs, MaxRuns)

NextGroups ==
    \/ StartRunGroups
    \/ ImportPhotoVideoBatch
    \/ ImportAudioBatch
    \/ FinishPhotoVideo
    \/ FinishAudio
    \/ Report

\* the runs with prompts are not disturbed by exceptions
InitGroups == InitOf(GroupTrees, MaxFailures)

SpecGroups == InitGroups /\ [][NextGroups]_vars

(* ------------------------------- grouping and chunking of candidate lists *)
MaxPerDir == 5        \* candidate files in one directory
MaxBatchSize == 2     \* batch_size handed to _iter_batches

\* the directories of the candidates: the scan root, d, d/d and e
ChunkDirs == {<<>>, <<3>>, <<3, 3>>, <<6>>}

\* f.parent.relative_to(source_root) of a path relative to the scan root
Parent(p) == SubSeq(p, 1, Len(p) - 1)

\* sorted(...) of a set of paths, as the scan returns them
RECURSIVE SortPaths(_)
SortPaths(S) ==
    IF S = {} THEN <<>>
    ELSE LET m == CHOOSE x \in S : \A y \in S \ {x} : PathLess(x, y)
         IN <<m>> \o SortPaths(S \ {m})

\* the candidate lists: cnt[d] files f1.jpg, f2.jpg, ... in directory d
CandidateList(cnt) ==
    SortPaths(UNION {{Append(d, 10 + i) : i \in 1..cnt[d]} : d \in ChunkDirs})

\* _import_photo_video and _import_audio before their loop: the candidates are
\* grouped by directory and the groups sliced into chunks
SliceCandidates ==
    /\ pc = "scanned"
    /\ pc' = "loop"
    /\ batches' = iter_batches(group_by(hist.fn.input, [f \in SeqToSet(hist.fn.input) |-> Parent(f)]), hist.fn.size)
    /\ hist' = [hist EXCEPT !.fn.groups = group_by(hist.fn.input, [f \in SeqToSet(hist.fn.input) |-> Parent(f)])]
    /\ UNCHANGED <<src, tgt, roots, files, imports, cache, failureLog, args,
                   audioFiles, totals, failures, summary>>

\* one round of the loop over the chunks: the chunk is handed to the batch
\* function, which returns (ok) or raises into the fault boundary
ProcessChunk ==
    /\ pc = "loop"
    /\ batches # <<>>
    /\ batches' = Tail(batches)
    /\ \E ok \in BOOLEAN :
          hist' = [hist EXCEPT !.fn.done = Append(@, Head(batches)), !.fn.ok = ok]
    /\ UNCHANGED <<src, tgt, roots, files, imports, cache, failureLog, args, pc,
                   audioFiles, totals, failures, summary>>

NextChunks == SliceCandidates \/ ProcessChunk

\* a scan has returned a candidate list; batch_size is a positive number
InitChunks ==
    /\ src = CHOOSE s \in LeanTrees : s[3].content = 1
    /\ tgt = {} /\ roots = {} /\ files = {} /\ imports = {} /\ cache = {}
    /\ failureLog = <<>>
    /\ args = IdleArgs
    /\ pc = "scanned"
    /\ batches = <<>>
    /\ audioFiles = <<>>
    /\ totals = ZeroTotals
    /\ failures = 0
    /\ summary = [failures |-> 0, warned |-> FALSE]
    /\ \E cnt \in [ChunkDirs -> 0..MaxPerDir], size \in 1..MaxBatchSize :
          hist = [runs |-> 0, edits |-> 0, injected |-> 0,
                  start |-> [src |-> src, tgt |-> {}, roots |-> {}, files |-> {},
                             imports |-> {}, cache |-> {}],
                  copied |-> {}, took |-> {}, passed |-> {},
                  raised |-> 0, attempted |-> 0, last |-> NoLast, prevOk |-> FALSE,
                  call |-> NoCall, fatal |-> NoFatal,
                  fn |-> [NoFn EXCEPT !.input = CandidateList(cnt), !.size = size]]

SpecChunks == InitChunks /\ [][NextChunks]_vars

(* ---------------------------------------------------------- hasher.py *)
MaxDupContents == 3   \* contents the files of a duplicate search can have

\* st_size of a file with content c: contents 1 and 2 have one size, 3 and 4 the next
SizeOf(c) == (c + 1) \div 2

\* the keys of a defaultdict filled in the order of seq: first occurrences
RECURSIVE KeysInOrder(_)
KeysInOrder(ks) ==
    IF ks = <<>> THEN <<>>
    ELSE <<Head(ks)>> \o KeysInOrder(SelectSeq(Tail(ks), LAMBDA k : k # Head(ks)))

\* a defaultdict(list) filled with d[key[x]].append(x) for x in seq, as its items
GroupByKey(seq, key) ==
    LET keys == KeysInOrder([i \in 1..Len(seq) |-> key[seq[i]]])
    IN [i \in 1..Len(keys) |->
          [key |-> keys[i], members |-> SelectSeq(seq, LAMBDA x : key[x] = keys[i])]]

\* phase 2 of find_duplicates: the files of every candidate size are hashed
\* and the hashes with two files or more become DuplicateGroups
RECURSIVE HashPhase(_, _)
HashPhase(cands, s) ==
    IF cands = <<>> THEN <<>>
    ELSE LET hg == GroupByKey(Head(cands).members, [f \in AllFiles |-> s[f].content])
             dup == SelectSeq(hg, LAMBDA g : Len(g.members) >= 2)
         IN [i \in 1..Len(dup) |->
               [hash |-> dup[i].key, file_size |-> Head(cands).key,
                paths |-> dup[i].members]]
            \o HashPhase(Tail(cands), s)

\* variant: the files of one size are taken for duplicates without hashing
hasher_find_duplicates_m(ps, s) ==
    LET sg == GroupByKey(ps, [f \in AllFiles |-> SizeOf(s[f].content)])
        cand == SelectSeq(sg, LAMBDA g : Len(g.members) >= 2)
    IN [i \in 1..Len(cand) |->
          [hash |-> s[Head(cand[i].members)].content, file_size |-> cand[i].key,
           paths |-> cand[i].members]]

\* hasher.find_duplicates(paths) on the file system s
hasher_find_duplicates(ps, s) ==
    IF ps = <<>> THEN <<>>
    ELSE LET sg == GroupByKey(ps, [f \in AllFiles |-> SizeOf(s[f].content)])
         IN HashPhase(SelectSeq(sg, LAMBDA g : Len(g.members) >= 2), s)

\* cmd_dupes: the files of the scan are searched for duplicates
FindDuplicates ==
    /\ pc = "scanned"
    /\ pc' = "dupes"
    /\ hist' = [hist EXCEPT !.fn.out = hasher_find_duplicates(hist.fn.input, src)]
    /\ UNCHANGED <<src, tgt, roots, files, imports, cache, failureLog, args,
                   batches, audioFiles, totals, failures, summary>>

NextDupes == FindDuplicates

\* any of the five files exists with any content; cmd_dupes has scanned them
\* into all_files
InitDupes ==
    /\ src \in {s \in [AllFiles -> {Absent} \cup {[exists |-> TRUE, content |-> c, mtime |-> 1] :
                                                     c \in 1..MaxDupContents}] :
                    ~s[6].exists}
    /\ tgt = {} /\ roots = {} /\ files = {} /\ imports = {} /\ cache = {}
    /\ failureLog = <<>>
    /\ args = IdleArgs
    /\ pc = "scanned"
    /\ batches = <<>>
    /\ audioFiles = <<>>
    /\ totals = ZeroTotals
    /\ failures = 0
    /\ summary = [failures |-> 0, warned |-> FALSE]
    /\ hist = [runs |-> 0, edits |-> 0, injected |-> 0,
               start |-> [src |-> src, tgt |-> {}, roots |-> {}, files |-> {},
                          imports |-> {}, cache |-> {}],
               copied |-> {}, took |-> {}, passed |-> {},
               raised |-> 0, attempted |-> 0, last |-> NoLast, prevOk |-> FALSE,
               call |-> NoCall, fatal |-> NoFatal,
               fn |-> [NoFn EXCEPT !.input = scan(src).photos \o scan(src).videos
                                                \o scan(src).audios]]

SpecDupes == InitDupes /\ [][NextDupes]_vars

(* ------------------------- runs of the importer and calls of the methods *)
MaxMixCalls == 1      \* direct calls of HashDB methods between the runs

\* the arguments of the calls made between runs: the index of the pictures,
\* the path a run gives d/a.jpg, the source paths d/a.jpg and d/b.jpg
MixArgs == [targets |-> {"img"}, hashes |-> DbHashes, paths |-> {<<1, 1>>},
            importPaths |-> DbImportPaths, sources |-> DbSources]

\* between two runs a HashDB method is called on the index the runs use
IndexCall(A) == pc = "idle" /\ hist.call.n < MaxMixCalls /\ A

NextMix ==
    \/ StartRunStale
    \/ ImportPhotoVideoBatch
    \/ ImportAudioBatch
    \/ FinishPhotoVideo
    \/ FinishAudio
    \/ Report
    \/ EditSource
    \/ IndexCall(DbInsert(MixArgs))
    \/ IndexCall(DbDeleteByPath(MixArgs))
    \/ IndexCall(DbDeleteByHashAndPath(MixArgs))
    \/ IndexCall(DbRecordImport(MixArgs))
    \/ IndexCall(DbUpdateImport(MixArgs))
    \/ IndexCall(DbRebuild(MixArgs))
    \/ IndexCall(DbPutFile(MixArgs))

InitMix == InitOf({s \in LeanTrees : s[3].content = 1}, MaxFailures)

SpecMix == InitMix /\ [][NextMix]_vars

(* ------------------------------------- a whole run as one function *)
\* the inputs of a chunk nobody disturbs: no failure, no prompt answered
QuietInput == [fail |-> NoFail, updAns |-> [f \in FileIds |-> "n"],
               grpAns |-> [d \in 1..2 |-> ""], fpOk |-> FALSE]

\* a chunk that ended as r added to what the loop has gathered in acc
Gather(acc, r) ==
    [st |-> Committed(acc.st, r),
     took |-> IF r.err = NoErr THEN acc.took \cup r.took ELSE acc.took,
     passed |-> IF r.err = NoErr THEN acc.passed \cup r.passed ELSE acc.passed,
     failures |-> IF r.err = NoErr THEN acc.failures ELSE CountFailure(acc.failures)]

\* the loop over the batches of one phase without interference: the state the
\* loop leaves and the files it counted as imported and as skipped
RECURSIVE RunBatches(_, _, _, _)
RunBatches(acc, a, bs, media) ==
    IF bs = <<>> THEN acc
    ELSE RunBatches(Gather(acc, import_batch(media, acc.st, a, Head(bs).files, QuietInput)),
                    a, Tail(bs), media)

\* the two phases of a run over the scan result
RunPhases(st, a, result) ==
    RunBatches(
        RunBatches([st |-> st, took |-> {}, passed |-> {}, failures |-> 0], a,
                   iter_batches(group_by_source_dir(result.photos \o result.videos),
                                PhotoBatchSize),
                   "photo_video"),
        a, iter_batches(group_by_source_dir(result.audios), AudioBatchSize), "audio")

\* run_import from state st with flags a: the photo/video phase, then the
\* audio phase
RunOf(st, a) == RunPhases(st, a, scan(st.src))

(* -------------------------------------------------------------- properties *)
\* a step that processed one chunk, and one in which that chunk raised
ChunkStep == hist'.attempted = hist.attempted + 1
ChunkRaised == ChunkStep /\ hist'.last.err # NoErr

\* the number of chunks of a run over source tree s: per directory and media
\* kind, the file count divided by the chunk size, rounded up
ChunksOf(s, kinds, size) ==
    LET dirs == {SrcDir(f) : f \in FileIds}
        n(d) == Cardinality({f \in FileIds : s[f].exists /\ classify(f) \in kinds
                                              /\ SrcDir(f) = d})
        Sum[D \in SUBSET dirs] ==
            IF D = {} THEN 0
            ELSE LET d == CHOOSE e \in D : TRUE
                 IN ((n(d) + size - 1) \div size) + Sum[D \ {d}]
    IN Sum[dirs]

Planned(s) == ChunksOf(s, {"photo", "video"}, PhotoBatchSize)
              + ChunksOf(s, {"audio"}, AudioBatchSize)

\* C6: failure isolation.  When run_import returns, every chunk of the scan
\* has been attempted whatever chunks raised before it, the failure count it
\* reports is the number of chunks that raised, and the warning is issued
\* exactly when that number is not zero.
C6_FailureIsolation ==
    [][(pc = "report" /\ pc' = "idle") =>
          /\ hist.attempted = Planned(hist.start.src)
          /\ summary'.failures = hist.raised
          /\ summary'.warned <=> (hist.raised > 0)]_vars

\* a run has returned and reported one failure: the first photo/video chunk
\* raised, the chunks after it and the audio phase imported their files
C6_Witness ==
    /\ pc = "idle" /\ hist.runs > 0
    /\ summary.failures = 1 /\ summary.warned
    /\ Len(failureLog) = 1 /\ failureLog[1].media_type = "photo_video"
    /\ failureLog[1].files = <<1, 2>>
    /\ source_path_imported(imports, "img", 3)
    /\ source_path_imported(imports, "aud", 4)
    /\ source_path_imported(imports, "aud", 5)

\* C7: the failure log.  A chunk that raises appends exactly one entry that
\* carries the directory of the chunk relative to the scan root, the media kind
\* of the phase, the file list of the chunk and the class name and message of
\* the exception; every other step leaves the log as it is.
C7_FailureLog ==
    [][IF ChunkRaised
       THEN /\ Len(failureLog') = Len(failureLog) + 1
            /\ SubSeq(failureLog', 1, Len(failureLog)) = failureLog
            /\ LET entry == failureLog'[Len(failureLog')] IN
               /\ entry.files = Head(batches).files
               /\ \A i \in 1..Len(entry.files) : SrcDir(entry.files[i]) = entry.source_dir
               /\ entry.media_type = (IF pc = "photo" THEN "photo_video" ELSE "audio")
               /\ \A i \in 1..Len(entry.files) :
                     (entry.media_type = "audio") <=> (classify(entry.files[i]) = "audio")
               /\ entry.error_type = hist'.last.err.type
               /\ entry.error_message = hist'.last.err.msg
       ELSE failureLog' = failureLog]_vars

\* the log holds the entry of an audio chunk that raised
C7_Witness ==
    /\ failureLog # <<>>
    /\ failureLog[Len(failureLog)].media_type = "audio"
    /\ failureLog[Len(failureLog)].files = <<4>>
    /\ hist.last.err # NoErr

\* a step that leaves source file f unimported: the file stays where it is, is
\* not written to a target, gets no FileRecord, and its ImportRecord is as before
Unimported(f) ==
    /\ src'[f] = src[f]
    /\ ~\E c \in hist'.copied \ hist.copied : c.f = f
    /\ {r \in files' : r.source = f} \subseteq {r \in files : r.source = f}
    /\ {r \in imports' : r.source = f} = {r \in imports : r.source = f}

\* C8 as stated: whenever a chunk raises, at whatever step, no file of the chunk
\* has been imported and no index mutation of the chunk has been applied.
C8_AllOrNothing ==
    [][ChunkRaised =>
          /\ tgt' = tgt /\ src' = src
          /\ files' = files /\ imports' = imports]_vars

\* C8 amended: a chunk that raises before the execution of its first to-import
\* entry has begun (in the extraction or in the hashing loop) has imported no
\* file and changed no FileRecord and no ImportRecord; a chunk that raises
\* later has written no ImportRecord for the entry that raised nor for any
\* entry after it, and has not touched the files after it.
C8_Amended ==
    [][ChunkRaised =>
          LET L == hist'.last IN
          /\ L.k = 0 => /\ tgt' = tgt /\ src' = src /\ roots' = roots
                        /\ files' = files /\ imports' = imports
          /\ \A f \in SeqToSet(L.files) \ L.took :
                {r \in imports' : r.source = f} = {r \in imports : r.source = f}
          /\ \A f \in SeqToSet(L.files) \ L.began : Unimported(f)]_vars

\* a chunk raised at the insert of its second entry: the second file is copied
\* and has no ImportRecord, the first is imported
C8_Witness ==
    /\ hist.last.fail = [at |-> "insert", idx |-> 2]
    /\ hist.last.err = ErrOf("insert")
    /\ hist.last.files = <<1, 2>>
    /\ hist.last.took = {1}
    /\ \E c \in hist.copied : c.f = 2
    /\ ~source_path_imported(imports, "img", 2)

\* C9: a hashing failure precedes all mutation.  When the hashing of a file of
\* a chunk fails, nothing of the chunk has been copied or moved and no
\* FileRecord or ImportRecord has been written: the target trees, the sources
\* and the two tables are as before the chunk, and the loop goes on with the
\* next chunk of the same phase.
C9_HashFailure ==
    [][(ChunkRaised /\ hist'.last.err = ErrOf("hash")) =>
          /\ tgt' = tgt /\ roots' = roots /\ src' = src
          /\ files' = files /\ imports' = imports
          /\ hist'.copied = hist.copied
          /\ batches' = Tail(batches) /\ pc' = pc]_vars

\* the hashing of the second file of a chunk failed after the first file had
\* been put on the to-import list, and a later chunk is still to come
C9_Witness ==
    /\ hist.last.fail = [at |-> "hash", idx |-> 2]
    /\ hist.last.err = ErrOf("hash")
    /\ Len(hist.last.to_import) = 1
    /\ hist.copied = {} /\ files = {} /\ imports = {}
    /\ batches # <<>>

\* C10: no chunk-level rollback.  When a chunk raises while executing its j-th
\* to-import entry, each of the j-1 entries executed before it keeps its copy
\* in the target, its FileRecord and its ImportRecord, and the entries after
\* the j-th are left unimported.
C10_NoRollback ==
    [][(ChunkRaised /\ hist'.last.k > 0) =>
          LET L == hist'.last IN
          /\ \A f \in L.took :
                \E r \in imports' :
                    /\ r.source = f /\ r.target = TargetOf(f) /\ r.hash = hash_file(src, f)
                    /\ \E y \in tgt' : /\ y.target = r.target /\ y.path = r.path
                                       /\ y.content = hash_file(src, f)
                    /\ \E q \in files' : /\ q.target = r.target /\ q.path = r.path
                                         /\ q.hash = r.hash
          /\ \A f \in SeqToSet(L.files) \ L.began : Unimported(f)]_vars

\* a chunk raised at the copy of its second entry: the first file has its
\* copy and both records
C10_Witness ==
    /\ hist.last.fail = [at |-> "copy", idx |-> 2]
    /\ hist.last.err = ErrOf("copy")
    /\ hist.last.took = {1} /\ hist.last.began = {1, 2}
    /\ source_path_imported(imports, "img", 1)
    /\ \E q \in files : q.source = 1
    /\ \E c \in hist.copied : c.f = 1
    /\ ~\E c \in hist.copied : c.f = 2

\* the candidates of a run that share content c and target t: the files the
\* scan of the run found
Candidates(st, t, c) ==
    {f \in FileIds : st.src[f].exists /\ st.src[f].content = c /\ TargetOf(f) = t}

\* a first run without dry_run has returned and none of its chunks raised
CleanFirstRun == pc = "report" /\ hist.runs = 0 /\ ~args.dry_run /\ hist.raised = 0

\* C1: idempotence.  When a run follows a run that completed without a failure,
\* with nothing modified in between, and completes itself, it has written no
\* file to a target, has added no FileRecord and no ImportRecord, and has
\* counted every candidate as skipped.
C1_Idempotence ==
    (pc = "report" /\ hist.prevOk /\ hist.raised = 0) =>
        /\ hist.copied = {} /\ hist.took = {}
        /\ tgt = hist.start.tgt
        /\ files = hist.start.files
        /\ imports = hist.start.imports

\* the second of two runs in a row has returned: the first imported the whole
\* tree, the second skipped every file of it
C1_Witness ==
    /\ pc = "report" /\ hist.prevOk /\ hist.raised = 0 /\ hist.runs = 1
    /\ hist.passed = FileIds
    /\ \A f \in FileIds : \E y \in tgt : y.target = TargetOf(f) /\ y.content = hash_file(src, f)

\* C2: canonical copy.  After a first run, of every k > 1 candidates with the
\* same content that was not in the index exactly one has been copied, and
\* all k source paths have an ImportRecord with the hash of that content.
C2_CanonicalCopy ==
    CleanFirstRun =>
        \A t \in Targets, c \in Contents :
            LET K == Candidates(hist.start, t, c) IN
            (Cardinality(K) > 1 /\ ~hash_exists(hist.start.files, t, c)) =>
                /\ Cardinality({x \in hist.copied : x.f \in K}) = 1
                /\ \A f \in K : \E r \in imports :
                       r.target = t /\ r.source = f /\ r.hash = c

\* C3: tie-break.  After a first run, a file that has been copied is the one
\* with the earliest modification time among the candidates with its content.
C3_EarliestMtime ==
    CleanFirstRun =>
        \A x \in hist.copied :
            \A g \in Candidates(hist.start, x.t, hist.start.src[x.f].content) :
                hist.start.src[x.f].mtime <= hist.start.src[g].mtime

\* C4: dry-run changes nothing.  No step of a run with dry_run set, whatever
\* the other flags, changes a target tree, creates a target root, touches a
\* source file or changes one of the three tables.
C4_DryRunChangesNothing ==
    [][(args.dry_run \/ args'.dry_run) =>
          /\ tgt' = tgt /\ roots' = roots /\ src' = src
          /\ files' = files /\ imports' = imports /\ cache' = cache]_vars

\* C5: dry-run / real-run parity.  When a dry run has returned without a
\* failure, the files it reported as would-import or would-update and the
\* files it skipped are the files a real run from the same state with the
\* same flags imports or updates and skips.
C5_DryRunParity ==
    (pc = "report" /\ args.dry_run /\ ~args.interactive /\ ~args.identify
                   /\ hist.raised = 0) =>
        \A real \in {RunOf(hist.start, [args EXCEPT !.dry_run = FALSE])} :
            real.failures = 0 =>
                /\ hist.took = real.took
                /\ hist.passed = real.passed

\* a later run has returned without a failure after a chunk of an earlier run
\* had raised, and the source is as it was at the start: nothing was edited
\* and nothing was moved away
Resumed ==
    /\ pc = "report" /\ hist.runs > 0 /\ hist.edits = 0
    /\ \A f \in FileIds : src[f].exists
    /\ hist.injected > 0 /\ hist.raised = 0

\* C11: safe resume.  When a chunk of a run raised at any point and the
\* pipeline is run again to completion on the unmodified source, no content is
\* in a target twice (nothing was copied a second time under a new name) and
\* every file in a target has its FileRecord.
C11_SafeResume ==
    Resumed =>
        /\ \A y \in tgt, z \in tgt :
              (y.target = z.target /\ y.content = z.content) => y.path = z.path
        /\ \A y \in tgt : \E q \in files :
              q.target = y.target /\ q.path = y.path /\ q.hash = y.content

\* the ImportRecord of source file f in the index of its target (a set: empty
\* or one row)
ImportOf(f) == get_import(imports, TargetOf(f), f)

\* file f has an ImportRecord whose target file exists and is strictly older
\* than the source
NewerThanTarget(f) ==
    /\ src[f].exists
    /\ \E r \in ImportOf(f) :
          /\ r.path # NullPath
          /\ TargetExists(tgt, r.target, r.path)
          /\ source_is_newer(src, tgt, f, r.target, r.path)

\* file f is a candidate for an Import-Update: newer than its recorded target
\* and with a hash that is not in the index
UpdateCandidate(f) ==
    NewerThanTarget(f) /\ ~hash_exists(files, TargetOf(f), hash_file(src, f))

TargetFile(tg, t, p) == {y \in tg : y.target = t /\ y.path = p}

\* a step that leaves the recorded target of source file f and the index as
\* they are for f: the file is not executed, its recorded target file is the
\* same unless another file of the chunk was written to that path, no
\* FileRecord is removed unless the update of another file of the chunk
\* removed it, and f stays unimported
Skipped(f) ==
    /\ f \notin hist'.last.began
    /\ hist'.last.err = NoErr => f \in hist'.last.passed
    /\ Unimported(f)
    /\ \A q \in files \ files' :
          \E g \in hist'.last.began \ {f} :
              \E r \in get_import(imports, q.target, g) : r.hash = q.hash
    /\ \A r \in ImportOf(f) :
          \/ TargetFile(tgt', r.target, r.path) = TargetFile(tgt, r.target, r.path)
          \/ \E c \in hist'.copied \ hist.copied :
                 c.f # f /\ c.t = r.target /\ c.path = r.path

\* the update of file f is not confirmed: no prompt and no update flag, or a
\* prompt answered with something else than "y"
Unconfirmed(f) ==
    \/ ~args.interactive /\ ~args.update
    \/ args.interactive /\ hist'.last.updAns[f] # "y"

\* C13: an unconfirmed update is a skip.  A file with an ImportRecord whose
\* source is strictly newer than the recorded target, in a chunk processed
\* without the update flag (no prompts) or with the prompt answered by
\* something else than "y", is counted as skipped; its target file keeps the
\* old content, its ImportRecord the old hash, and no FileRecord changes.
C13_UnconfirmedUpdate ==
    [][ChunkStep =>
          \A f \in SeqToSet(Head(batches).files) :
              (NewerThanTarget(f) /\ Unconfirmed(f)) => Skipped(f)]_vars

\* the operator declined the update of d/a.jpg, which had been rewritten after
\* its import: the file is counted as skipped and the target has the old content
C13_Witness ==
    /\ args.interactive /\ hist.last.updAns[1] = "n"
    /\ hist.last.files = <<1, 2>> /\ 1 \in hist.last.passed
    /\ hash_file(src, 1) = 3
    /\ NewerThanTarget(1)
    /\ \E r \in ImportOf(1) : r.hash = 1 /\ \E y \in tgt : y.path = r.path /\ y.content = 1

\* file f has an ImportRecord without a path, or with a path at which the
\* target has no file, or with a target file that is not older than the source
Stale(f) ==
    /\ src[f].exists
    /\ \E r \in ImportOf(f) :
          \/ r.path = NullPath
          \/ ~TargetExists(tgt, r.target, r.path)
          \/ src[f].mtime <= TargetMtime(tgt, r.target, r.path)

Present(f) ==
    /\ src[f].exists
    /\ \E q \in files : q.target = TargetOf(f) /\ q.hash = src[f].content

\* C15: the already-present gate.  A file whose content hash has a FileRecord
\* in the index of its target, at whatever path, is counted as skipped: it is
\* not copied or moved, no FileRecord and no ImportRecord is written for it,
\* and a chunk of such files raises nothing.
C15_AlreadyPresent ==
    [][ChunkStep =>
          /\ \A f \in SeqToSet(Head(batches).files) : Present(f) =>
                /\ f \notin hist'.last.began
                /\ Unimported(f)
                /\ hist'.last.err = NoErr => f \in hist'.last.passed
          /\ (hist'.last.fail = NoFail /\ \A f \in SeqToSet(Head(batches).files) : Present(f))
                => /\ hist'.last.err = NoErr
                   /\ totals'.skipped = totals.skipped + Len(Head(batches).files)
                   /\ tgt' = tgt /\ src' = src /\ files' = files /\ imports' = imports]_vars

\* a.jpg has the content d/a.jpg was imported with: it is skipped, the only
\* FileRecord of its hash is the one of d/a.jpg, and it has no ImportRecord
C15_Witness ==
    /\ hist.last.files = <<3>> /\ hist.last.passed = {3} /\ hist.last.err = NoErr
    /\ Present(3) /\ ImportOf(3) = {}
    /\ \A q \in files : q.hash = src[3].content => q.source = 1
    /\ ~\E c \in hist.copied : c.f = 3

\* source file f is a candidate for an Import-New: its hash is not in the
\* index of its target and its path has no ImportRecord
NewCandidate(f) == src[f].exists /\ ~Present(f) /\ ImportOf(f) = {}

\* after the step source file f is imported with the content h it had: an
\* ImportRecord (f, h, r), a file with that content at r, a FileRecord (h, r)
\* that carries f
ImportedAs(f, h) ==
    \E r \in imports' :
        /\ r.source = f /\ r.target = TargetOf(f) /\ r.hash = h /\ r.path # NullPath
        /\ \E y \in tgt' : y.target = r.target /\ y.path = r.path /\ y.content = h
        /\ [target |-> r.target, hash |-> h, path |-> r.path, source |-> f] \in files'

\* the operator skipped the group of file f at the prompt of its directory name
GroupSkipped(f) ==
    /\ args.interactive /\ classify(f) # "audio"
    /\ hist'.last.grpAns[suggest_dirname(f)] = "s"

\* the entry of a chunk that raised: the one that began and was not counted
Raising == hist'.last.began \ hist'.last.took

\* C16 as stated: every candidate for an Import-New of a chunk that ended
\* without an error outside dry_run is imported.
C16_ImportNewAlways ==
    [][(ChunkStep /\ ~args.dry_run /\ hist'.last.err = NoErr) =>
          \A f \in SeqToSet(Head(batches).files) :
              NewCandidate(f) => ImportedAs(f, src[f].content)]_vars

\* C16 amended: every candidate for an Import-New of a chunk that ended
\* without an error outside dry_run is imported (a file with its content at a
\* path r of the target, a FileRecord (h, r) carrying the source path, an
\* ImportRecord (source path, h, r)) unless the operator skipped its group at
\* the prompt, and then nothing is written for it.  The steps are taken in the
\* order copy or move, insert, record_import: a chunk that raises at the copy
\* has written nothing for the entry, one that raises at the insert has the
\* copy and no record, one that raises at record_import has the copy and the
\* FileRecord and no ImportRecord.
C16_ImportNew ==
    [][ChunkStep =>
          /\ (~args.dry_run /\ hist'.last.err = NoErr) =>
                \A f \in SeqToSet(Head(batches).files) : NewCandidate(f) =>
                    IF GroupSkipped(f) THEN Unimported(f) /\ f \notin hist'.last.began
                    ELSE ImportedAs(f, src[f].content) /\ f \in hist'.last.took
          /\ hist'.last.fail.at \in {"copy", "insert", "record"} =>
                \A f \in Raising : NewCandidate(f) =>
                    /\ {r \in imports' : r.source = f} = {}
                    /\ (\E c \in hist'.copied \ hist.copied : c.f = f)
                          <=> hist'.last.fail.at # "copy"
                    /\ (\E q \in files' : q.source = f)
                          <=> hist'.last.fail.at = "record"]_vars

\* d/a.jpg and d/b.jpg were imported under the name the operator typed
C16_Witness ==
    /\ args.interactive /\ hist.last.files = <<1, 2>> /\ hist.last.took = {1, 2}
    /\ hist.last.grpAns[1] = "r"
    /\ [target |-> "img", source |-> 1, hash |-> 1, path |-> <<TypedName, 1>>] \in imports
    /\ [target |-> "img", hash |-> 1, path |-> <<TypedName, 1>>, source |-> 1] \in files
    /\ \E y \in tgt : y.target = "img" /\ y.path = <<TypedName, 1>> /\ y.content = 1

\* the copies a step made for files that had no ImportRecord (Import-New)
NewCopies == {c \in hist'.copied \ hist.copied : get_import(imports, c.t, c.f) = {}}

\* the path an Import-New asks for: directory name and destination file name
Requested(p) == SubSeq(p, 1, 2)

Copies == hist'.copied \ hist.copied

\* C18: execution mode.  Every file a chunk imported (as new or as an update)
\* was copied or moved; after a copy the source is there as before, after a
\* move the source is gone, and in both modes the target file holds the
\* content the source had.  The same is true of the copy or move of an entry
\* that raised afterwards.
C18_ExecutionMode ==
    [][ChunkStep =>
          /\ \A f \in hist'.last.took : args.dry_run \/ \E c \in Copies : c.f = f
          /\ \A c \in Copies :
                /\ \E y \in tgt' : /\ y.target = c.t /\ y.path = c.path
                                   /\ y.content = src[c.f].content
                /\ IF args.move THEN ~src'[c.f].exists ELSE src'[c.f] = src[c.f]]_vars

\* a chunk of a run in move mode imported d/a.jpg and d/b.jpg: the sources
\* are gone and the target has their contents
C18_Witness ==
    /\ args.move /\ hist.last.files = <<1, 2>> /\ hist.last.took = {1, 2}
    /\ ~src[1].exists /\ ~src[2].exists
    /\ \E y \in tgt : y.target = "img" /\ y.path = <<1, 1>> /\ y.content = 1
    /\ \E y \in tgt : y.target = "img" /\ y.path = <<2, 2>> /\ y.content = 2

\* the step is a direct call of HashDB method op
Calls(op) == hist'.call.n = hist.call.n + 1 /\ hist'.call.op = op

\* no two FileRecords share (target, hash, path)
UniqueFileRecords ==
    \A q \in files, r \in files :
        (q.target = r.target /\ q.hash = r.hash /\ q.path = r.path) => q = r

\* C19: FileRecord uniqueness.  insert raises the integrity error exactly when
\* a FileRecord with the same target, hash and path exists, and then leaves
\* the table as it is; otherwise, also when the hash is recorded at another
\* path, the record is added.  So no two FileRecords ever share target, hash
\* and path.
C19_FileRecordUnique ==
    /\ []UniqueFileRecords
    /\ [][Calls("insert") =>
            LET c == hist'.call
                dup == \E q \in files : q.target = c.t /\ q.hash = c.h /\ q.path = c.p
            IN  /\ (c.err = IntegrityError) <=> dup
                /\ c.err # IntegrityError => c.err = NoErr
                /\ dup => files' = files
                /\ ~dup => files' = files \cup {[target |-> c.t, hash |-> c.h,
                                                 path |-> c.p, source |-> c.s]}]_vars

\* one hash is recorded at two paths of a target, and the insert of one of
\* the two records a second time has raised
C19_Witness ==
    /\ hist.call.op = "insert" /\ hist.call.err = IntegrityError
    /\ \E q \in files, r \in files :
          /\ q.target = r.target /\ q.hash = r.hash /\ q.path # r.path
          /\ q.target = hist.call.t /\ q.hash = hist.call.h /\ q.path = hist.call.p

\* C20: record_import is insert-if-absent.  When an ImportRecord exists for
\* the target and source path, a further record_import for that source path,
\* with any hash and any path, changes nothing and get_import still returns
\* the record of the first call; when none exists the record is created with
\* the values given.
C20_RecordImportIfAbsent ==
    [][Calls("record_import") =>
         LET c == hist'.call
             old == get_import(imports, c.t, c.s)
             new == [target |-> c.t, source |-> c.s, hash |-> c.h, path |-> c.p]
         IN  /\ c.err = NoErr /\ files' = files
             /\ old # {} => imports' = imports /\ get_import(imports', c.t, c.s) = old
             /\ old = {} => imports' = imports \cup {new}
                            /\ get_import(imports', c.t, c.s) = {new}]_vars

\* a second record_import for a source path was called with another hash and
\* another path than the first, and the record still holds the first values
C20_Witness ==
    /\ hist.call.op = "record_import" /\ hist.call.n >= 2
    /\ \E r \in get_import(imports, hist.call.t, hist.call.s) :
          r.hash # hist.call.h /\ r.path # hist.call.p

\* C21: update_import is the only overwrite.  update_import(s, h, p) on an
\* existing ImportRecord of source path s sets its hash and path to h and p,
\* leaves every other ImportRecord and every FileRecord as it is, and creates
\* nothing when s has no ImportRecord.  A chunk of the importer changes an
\* ImportRecord only of a file that is newer than its recorded target, whose
\* hash is not in the index and whose update is confirmed, and then to the
\* new hash at the same path.
C21_UpdateImportOnly ==
    /\ [][Calls("update_import") =>
            LET c == hist'.call
                old == get_import(imports, c.t, c.s)
            IN  /\ c.err = NoErr /\ files' = files
                /\ old = {} => imports' = imports
                /\ old # {} => imports' = (imports \ old)
                      \cup {[target |-> c.t, source |-> c.s, hash |-> c.h, path |-> c.p]}]_vars
    /\ [][ChunkStep =>
            \A r \in imports \ imports' :
                /\ r.source \in SeqToSet(Head(batches).files)
                /\ r.target = TargetOf(r.source)
                /\ UpdateCandidate(r.source)
                /\ ~Unconfirmed(r.source) /\ ~args.dry_run
                /\ get_import(imports', r.target, r.source)
                      = {[r EXCEPT !.hash = hash_file(src, r.source)]}]_vars

\* a run has updated d/a.jpg after an edit (its ImportRecord has the new
\* hash), and a call of update_import has then rewritten the ImportRecord of
\* d/b.jpg and left that of d/a.jpg and the FileRecords
C21_Witness ==
    /\ hist.call.op = "update_import" /\ hist.call.t = "img" /\ hist.call.s = 2
    /\ get_import(imports, "img", 2)
          = {[target |-> "img", source |-> 2, hash |-> 1, path |-> NullPath]}
    /\ get_import(imports, "img", 1)
          = {[target |-> "img", source |-> 1, hash |-> 3, path |-> <<1, 1>>]}
    /\ hash_exists(files, "img", 3) /\ hash_exists(files, "img", 2)

\* C22: ImportRecords persist.  Once a target has an ImportRecord for a
\* source path it has one for that source path in every later state, whatever
\* methods of the index are called and whatever the runs of the importer do;
\* rebuild leaves table imports as it is.
C22_ImportRecordsPersist ==
    /\ [][\A r \in imports : get_import(imports', r.target, r.source) # {}]_vars
    /\ [][Calls("rebuild") => imports' = imports]_vars

\* after two runs, the second of which updated d/a.jpg, the index of the
\* pictures was rebuilt: its FileRecords are those of the rebuild, and the
\* ImportRecords of the runs are all there
C22_Witness ==
    /\ hist.call.op = "rebuild" /\ hist.call.t = "img" /\ hist.runs = 2
    /\ files # {} /\ \A q \in files : q.target = "img" => q.source = 0
    /\ get_import(imports, "img", 1)
          = {[target |-> "img", source |-> 1, hash |-> 3, path |-> <<1, 1>>]}
    /\ get_import(imports, "img", 2) # {} /\ get_import(imports, "aud", 4) # {}

\* C23: rebuild.  After rebuild of a target directory the FileRecords of the
\* target are exactly one record, with the hash of the content and the
\* relative path, per regular file of the tree none of whose path parts
\* starts with "."; there is no record of a file that is absent or hidden,
\* and the count returned is the number of those files.
C23_Rebuild ==
    [][Calls("rebuild") =>
         LET c == hist'.call
             visible == {y \in tgt : y.target = c.d /\ y.path[1] # 0 /\ y.path[2] # 0}
             rows == {q \in files' : q.target = c.t}
         IN  /\ {<<q.hash, q.path>> : q \in rows} = {<<y.content, y.path>> : y \in visible}
             /\ Cardinality(rows) = Cardinality(visible)
             /\ c.ret = Cardinality(visible)
             /\ c.err = NoErr]_vars

\* the tree of the pictures holds a/a.jpg and the hidden .h/a.jpg, and the
\* rebuild of its index has returned 1 and left the one record of a/a.jpg
C23_Witness ==
    /\ hist.call.op = "rebuild" /\ hist.call.t = "img" /\ hist.call.d = "img"
    /\ hist.call.ret = 1
    /\ \E y \in tgt : y.target = "img" /\ y.path = <<0, 1>>
    /\ \E y \in tgt : y.target = "img" /\ y.path = <<1, 1>>
    /\ \A q \in files : q.target = "img" => q.path = <<1, 1>>

\* the step is a direct call of a method of HashDB
MethodCall == hist'.call.n = hist.call.n + 1 /\ hist'.call.op # "put"

\* C24: target isolation.  A call of insert, a delete, record_import,
\* update_import or rebuild through the handle of one target leaves what
\* hash_exists, get_by_hash, count, find_duplicates, source_path_imported and
\* get_import return through the handle of another target as it was.
C24_TargetIsolation ==
    [][MethodCall =>
         \A u \in DbTargets \ {hist'.call.t} :
             /\ count(files', u) = count(files, u)
             /\ find_duplicates(files', u) = find_duplicates(files, u)
             /\ \A h \in DbHashes :
                   /\ hash_exists(files', u, h) = hash_exists(files, u, h)
                   /\ get_by_hash(files', u, h) = get_by_hash(files, u, h)
             /\ \A x \in DbSources :
                   /\ source_path_imported(imports', u, x) = source_path_imported(imports, u, x)
                   /\ get_import(imports', u, x) = get_import(imports, u, x)]_vars

\* both targets had a record of one hash at one path; delete_by_path through
\* the handle of the pictures has removed that of the pictures, and the
\* handle of the music still finds its own
C24_Witness ==
    /\ hist.call.op = "delete_by_path" /\ hist.call.t = "img"
    /\ count(files, "img") = 0 /\ count(files, "aud") = 1
    /\ \E q \in files : q.target = "aud" /\ q.path = hist.call.p
    /\ hist.call.n = 3

\* C30: precise removal.  delete_by_hash_and_path(h, p) removes the
\* FileRecord of the target with hash h at path p and no other, so records of
\* h at other paths and of other hashes at p stay; delete_by_path(p) removes
\* the FileRecords of the target at path p and no other.  A call for a record
\* that does not exist changes nothing and raises nothing, and neither call
\* changes an ImportRecord.
C30_PreciseRemoval ==
    /\ [][Calls("delete_by_hash_and_path") =>
            LET c == hist'.call IN
            /\ files' = files \ {q \in files : q.target = c.t /\ q.hash = c.h /\ q.path = c.p}
            /\ imports' = imports /\ c.err = NoErr]_vars
    /\ [][Calls("delete_by_path") =>
            LET c == hist'.call IN
            /\ files' = files \ {q \in files : q.target = c.t /\ q.path = c.p}
            /\ imports' = imports /\ c.err = NoErr]_vars

\* one hash was recorded at two paths of a target; delete_by_hash_and_path
\* has removed the record at one of them and the other is still there
C30_Witness ==
    /\ hist.call.op = "delete_by_hash_and_path"
    /\ ~insert_raises(files, hist.call.t, hist.call.h, hist.call.p)
    /\ \E q \in files : q.target = hist.call.t /\ q.hash = hist.call.h /\ q.path # hist.call.p
    /\ hist.call.n = 3

\* d is a directory below e
IsUnder(d, e) == Len(d) > Len(e) /\ SubSeq(d, 1, Len(e)) = e

\* the files of a sequence of (dir, files) entries, in order
RECURSIVE Concat(_)
Concat(gs) == IF gs = <<>> THEN <<>> ELSE Head(gs).files \o Concat(Tail(gs))

\* C25: _group_by_source_dir puts every candidate in exactly one group, the
\* group of its parent directory relative to the scan root, and orders the
\* groups by decreasing number of path parts and then by ascending path; the
\* chunks are processed in that order, so no chunk of a directory is
\* processed, completed or failed, after a chunk of one of its ancestors.
C25_DeepestFirst ==
    LET G == hist.fn.groups
        D == hist.fn.done
        In == hist.fn.input
    IN pc = "loop" =>
        /\ \A i \in 1..Len(In) :
             \E g \in 1..Len(G) :
               /\ G[g].dir = Parent(In[i])
               /\ \E k \in 1..Len(G[g].files) : G[g].files[k] = In[i]
               /\ \A g2 \in 1..Len(G) : \A k2 \in 1..Len(G[g2].files) :
                    G[g2].files[k2] = In[i] => g2 = g
        /\ Len(Concat(G)) = Len(In)
        /\ \A g \in 1..Len(G), h \in 1..Len(G) :
             g < h => \/ Len(G[g].dir) > Len(G[h].dir)
                      \/ Len(G[g].dir) = Len(G[h].dir) /\ PathLess(G[g].dir, G[h].dir)
        /\ \A i \in 1..Len(D), j \in 1..Len(D) :
             i < j => ~IsUnder(D[j].dir, D[i].dir)
        /\ \A i \in 1..Len(D), j \in 1..Len(batches) : ~IsUnder(batches[j].dir, D[i].dir)

\* a directory had more candidates than one chunk takes and all its chunks
\* were processed, the last one failing, before the chunk of its parent
C25_Witness ==
    /\ pc = "loop"
    /\ Len(hist.fn.done) >= 3
    /\ hist.fn.done[1].dir = <<3, 3>> /\ hist.fn.done[2].dir = <<3, 3>>
    /\ hist.fn.done[Len(hist.fn.done)].dir = <<3>>
    /\ ~hist.fn.ok

\* the chunk sizes _iter_batches gives one directory of 250 files at batch_size 100
LargeDirSliced ==
    LET bs == iter_batches(<<[dir |-> <<3>>, files |-> [i \in 1..250 |-> 10 + i]]>>, 100)
    IN [i \in 1..Len(bs) |-> Len(bs[i].files)]

\* C26: the chunks of _iter_batches, concatenated in order, are the groups'
\* file lists concatenated in order; every chunk has between 1 and batch_size
\* files, all of the chunk's directory; a chunk followed by another chunk of
\* the same directory has exactly batch_size files; 250 files at batch_size
\* 100 give chunks of 100, 100 and 50.
C26_Chunks ==
    LET all == hist.fn.done \o batches
        size == hist.fn.size
    IN pc = "loop" =>
        /\ Concat(all) = Concat(hist.fn.groups)
        /\ \A i \in 1..Len(all) :
             /\ Len(all[i].files) >= 1 /\ Len(all[i].files) <= size
             /\ \A k \in 1..Len(all[i].files) : Parent(all[i].files[k]) = all[i].dir
        /\ \A i \in 1..Len(all), j \in 1..Len(all) :
             (i < j /\ all[i].dir = all[j].dir) => Len(all[i].files) = size
        /\ LargeDirSliced = <<100, 100, 50>>

\* a directory of five files was sliced at batch_size 2 into chunks of 2, 2
\* and 1 files, followed by the chunk of another directory
C26_Witness ==
    /\ pc = "loop"
    /\ hist.fn.size = 2
    /\ Len(batches) >= 4
    /\ batches[1].dir = batches[3].dir
    /\ Len(batches[1].files) = 2 /\ Len(batches[2].files) = 2 /\ Len(batches[3].files) = 1
    /\ batches[4].dir # batches[3].dir

\* the files listed in a DuplicateGroup
PathsOf(g) == {g.paths[k] : k \in 1..Len(g.paths)}

\* C27: for every set of input files, every DuplicateGroup find_duplicates
\* emits has at least 2 paths, all of the group's size and hash; no path is
\* in two groups; a file is in some group exactly if another input file has
\* its size and hash; no file or one file give no group.
C27_FindDuplicates ==
    LET out == hist.fn.out
        In == SeqToSet(hist.fn.input)
    IN pc = "dupes" =>
        /\ \A g \in 1..Len(out) :
             /\ Len(out[g].paths) >= 2
             /\ Cardinality(PathsOf(out[g])) = Len(out[g].paths)
             /\ \A f \in PathsOf(out[g]) :
                  /\ f \in In
                  /\ SizeOf(src[f].content) = out[g].file_size
                  /\ src[f].content = out[g].hash
        /\ \A g \in 1..Len(out), h \in 1..Len(out) :
             g # h => PathsOf(out[g]) \cap PathsOf(out[h]) = {}
        /\ \A f \in In :
             (\E g \in 1..Len(out) : f \in PathsOf(out[g]))
               <=> (\E f2 \in In \ {f} : /\ SizeOf(src[f2].content) = SizeOf(src[f].content)
                                         /\ src[f2].content = src[f].content)
        /\ Cardinality(In) <= 1 => out = <<>>

\* two groups were found, and a file that has the size of one of them but
\* another hash is in neither
C27_Witness ==
    /\ pc = "dupes"
    /\ Len(hist.fn.out) = 2
    /\ \E f \in SeqToSet(hist.fn.input) :
         /\ \A g \in 1..2 : f \notin PathsOf(hist.fn.out[g])
         /\ \E g \in 1..2 : SizeOf(src[f].content) = hist.fn.out[g].file_size

(* ------------------------------------------------- group sizes of a preview *)
MaxGroupSize == 7     \* files of one group shown in a prompt

\* the Import-New candidates of the chunk at the head of the loop
NewsOfChunk == {f \in SeqToSet(Head(batches).files) : NewCandidate(f)}

\* what the answer to the prompt of its group means for a new file f: skipped
\* and left alone, or imported under the typed or the suggested name
GroupDecision(f) ==
    LET ans == hist'.last.grpAns[suggest_dirname(f)]
    IN IF ans = "s" THEN Unimported(f) /\ f \notin hist'.last.began
       ELSE /\ ImportedAs(f, src[f].content)
            /\ \A r \in imports' : r.source = f =>
                  r.path[1] = (IF ans = "" THEN suggest_dirname(f) ELSE TypedName)
            /\ \A q \in files' : q.source = f =>
                  q.path[1] = (IF ans = "" THEN suggest_dirname(f) ELSE TypedName)

\* the preview lists at most 5 names and counts the rest
PreviewBounded ==
    \A n \in 1..MaxGroupSize :
        /\ file_list(n).count = n
        /\ file_list(n).names <= 5
        /\ file_list(n).names + file_list(n).more = n
        /\ file_list(n).more > 0 <=> n > 5

\* C28 as stated: in interactive mode every chunk that ends without an error
\* issues exactly one prompt per group of Import-New candidates with one
\* suggested directory name, and the answer decides for the files of the
\* group.
C28_InteractiveBatching ==
    [][(ChunkStep /\ args.interactive /\ hist'.last.err = NoErr) =>
          /\ hist'.last.prompts = Cardinality({suggest_dirname(f) : f \in NewsOfChunk})
          /\ \A f \in NewsOfChunk : GroupDecision(f)]_vars

\* C28 amended: in interactive mode outside dry_run the Import-New candidates
\* of a photo/video chunk are grouped by suggested directory name and exactly
\* one prompt is issued per group, with the file count, at most 5 names and
\* the count of the rest; "s" imports none of the group's files and writes no
\* FileRecord or ImportRecord for them, another non-empty answer places every
\* file of the group under that name, an empty answer under the suggested
\* name, whatever the answers for the other groups are.  A dry run and an
\* audio chunk issue no such prompt.
C28_GroupPrompts ==
    /\ [][(ChunkStep /\ args.interactive /\ hist'.last.err = NoErr) =>
            IF args.dry_run \/ pc = "audio"
            THEN hist'.last.prompts = 0
            ELSE /\ hist'.last.prompts = Cardinality({suggest_dirname(f) : f \in NewsOfChunk})
                 /\ \A f \in NewsOfChunk : GroupDecision(f)]_vars
    /\ [][PreviewBounded]_vars

\* a.jpg and z.jpg of the scan root were one group with one prompt, and both
\* are under the name the operator typed
C28_Witness ==
    /\ args.interactive /\ ~args.dry_run
    /\ hist.last.files = <<3, 6>> /\ hist.last.took = {3, 6}
    /\ hist.last.prompts = 1 /\ hist.last.grpAns[1] = "r"
    /\ [target |-> "img", source |-> 3, hash |-> 1, path |-> <<TypedName, 1>>] \in imports
    /\ [target |-> "img", source |-> 6, hash |-> 2, path |-> <<TypedName, 7>>] \in imports

\* a step in which HashDB(...) raised
FatalStep == hist'.fatal.n = hist.fatal.n + 1

\* the media kind of the phase of a source file
MediaOf(f) == IF classify(f) = "audio" THEN "audio" ELSE "photo_video"

\* C29: index unavailable is fatal.  When the index of a phase cannot be
\* opened the error leaves run_import: the per-chunk fault boundary does not
\* see it (no failure is counted, nothing is logged, nothing is reported), no
\* chunk of that kind is or has been processed in the run, no file is copied
\* or moved and no record written.
C29_IndexUnavailable ==
    [][FatalStep =>
          /\ hist'.fatal.err = OpenError
          /\ pc' = "idle" /\ batches' = <<>> /\ summary' = summary
          /\ ~ChunkStep
          /\ failureLog' = failureLog
          /\ src' = src /\ tgt' = tgt /\ files' = files /\ imports' = imports
          /\ \A c \in hist'.copied : MediaOf(c.f) # hist'.fatal.phase
          /\ \A f \in hist'.took \cup hist'.passed : MediaOf(f) # hist'.fatal.phase
          /\ \A i \in 1..Len(failureLog') :
                i > Len(failureLog') - hist'.raised =>
                    failureLog'[i].media_type # hist'.fatal.phase]_vars

\* the audio index could not be opened after the photo/video phase had
\* imported its files: the run has ended without a report, no audio file is
\* in a target and the failure log is empty
C29_Witness ==
    /\ hist.fatal.n = 1 /\ hist.fatal.phase = "audio"
    /\ pc = "idle" /\ hist.runs = 1
    /\ \E y \in tgt : y.target = "img"
    /\ ~\E y \in tgt : y.target = "aud"
    /\ "aud" \in roots
    /\ failureLog = <<>>

\* the hashes whose fingerprint has succeeded in an earlier identify_audio call
Fingerprinted == SeqToSet(hist.fn.out)

\* C31: identification cache protocol.  A call of identify_audio with an api
\* key for a hash the cache holds fingerprints nothing and looks nothing up;
\* on a miss with a successful fingerprint an entry is stored for the hash,
\* with null fields when no recording or no metadata was found; a failed
\* fingerprint stores nothing and looks nothing up.  So after the first call
\* for a hash whose fingerprint succeeded no call for it makes an external
\* lookup.
C31_CacheProtocol ==
    [][(Calls("identify") /\ hist'.call.s = 1) =>
          LET c == hist'.call
              hit == c.h \in cache
              fingerprints == c.ret \div 10
              lookups == c.ret % 10
          IN /\ hit => fingerprints = 0 /\ lookups = 0 /\ cache' = cache /\ c.d = "none"
             /\ ~hit => /\ fingerprints = 1
                        /\ c.d = "none" => cache' = cache /\ lookups = 0
                        /\ c.d # "none" => cache' = cache \cup {c.h} /\ lookups >= 1
                        /\ lookups = 0 => c.d = "none"
             /\ c.h \in Fingerprinted => lookups = 0 /\ fingerprints = 0
             /\ Fingerprinted' \ Fingerprinted \subseteq cache']_vars

\* the fingerprint of a hash succeeded in an earlier call, and the last call
\* for that hash, the third or a later one, made no fingerprint and no lookup
C31_Witness ==
    /\ hist.call.op = "identify" /\ hist.call.s = 1 /\ hist.call.n >= 3
    /\ hist.call.ret = 0
    /\ hist.call.h \in cache
    /\ Len(hist.fn.out) >= 1 /\ hist.fn.out[Len(hist.fn.out)] = hist.call.h

\* C32: guard precedence.  The hash-present check comes before the
\* ImportRecord: a file that has an ImportRecord and is strictly newer than
\* its recorded target is skipped in a run with the update flag on when its
\* current hash has a FileRecord in the index of its target; it is not copied
\* or moved, its recorded target file and its ImportRecord stay as they are
\* and no FileRecord is written for it.
C32_HashPresentFirst ==
    [][(ChunkStep /\ args.update) =>
          \A f \in SeqToSet(Head(batches).files) :
              (NewerThanTarget(f) /\ Present(f)) => Skipped(f)]_vars

\* d/a.jpg was imported, then rewritten with the content of d/b.jpg, and a run
\* with the update flag has skipped it: its target still has the old content
\* and its ImportRecord the old hash
C32_Witness ==
    /\ args.update /\ hist.last.err = NoErr /\ 1 \in hist.last.passed
    /\ src[1].exists /\ src[1].content = 2
    /\ \E r \in ImportOf(1) :
          /\ r.hash = 1 /\ r.path # NullPath
          /\ \E y \in tgt : /\ y.target = r.target /\ y.path = r.path /\ y.content = 1
                            /\ y.mtime < src[1].mtime
    /\ \E q \in files : q.target = "img" /\ q.hash = 2

\* C33: no chunk of a run ends with an IntegrityError of the index: every
\* insert of the Import-New and of the Import-Update path uses a (target, hash,
\* path) the index does not hold at that moment
C33_NoIntegrityViolation == [][ChunkStep => hist'.last.err # IntegrityError]_vars

\* C34: one record per target path.  No path of a target is recorded under
\* two different hashes
C34_OneRecordPerPath ==
    \A q \in files, r \in files :
        (q.target = r.target /\ q.path = r.path) => q.hash = r.hash

\* C35: the index matches the disk.  Every FileRecord (h, p) of a target has
\* a file at p in the target tree whose content hashes to h
C35_IndexMatchesDisk ==
    \A r \in files :
        \E y \in tgt : y.target = r.target /\ y.path = r.path /\ y.content = r.hash

\* after the step the ImportRecord i has a FileRecord of its hash at its path
\* in its target
Matched(i) ==
    \E r \in files' : r.target = i.target /\ r.hash = i.hash /\ r.path = i.path

WrittenRecordsAgree ==
    [][(ChunkStep /\ hist'.last.err = NoErr) =>
          \A i \in imports' \ imports : i.path # NullPath => Matched(i)]_vars

\* the files of the running phase among fs
OfPhase(fs) ==
    {f \in fs : IF pc = "audio" THEN classify(f) = "audio" ELSE classify(f) # "audio"}

\* the totals of the running phase count the files of its completed chunks:
\* those imported or updated and those passed over
RunTotals ==
    (pc \in {"photo", "audio"} /\ ~args.interactive) =>
        /\ totals.imported = Cardinality(OfPhase(hist.took))
        /\ totals.skipped = Cardinality(OfPhase(hist.passed))

\* C37: accounting.  A chunk that completes in non-interactive mode adds to
\* the totals of its phase an imported count and a skipped count that sum to
\* the number of its files: each file is counted once, as imported or updated
\* or as skipped; a chunk that fails adds to neither; the totals of a phase
\* are the sums over its completed chunks
C37_Accounting ==
    /\ [][(ChunkStep /\ ~args.interactive) =>
            IF hist'.last.err = NoErr
            THEN /\ (totals'.imported - totals.imported)
                        + (totals'.skipped - totals.skipped) = Len(Head(batches).files)
                 /\ totals'.imported - totals.imported = Cardinality(hist'.last.took)
                 /\ totals'.skipped - totals.skipped = Cardinality(hist'.last.passed)
                 /\ hist'.last.took \cap hist'.last.passed = {}
                 /\ hist'.last.took \cup hist'.last.passed = SeqToSet(Head(batches).files)
            ELSE /\ totals'.imported = totals.imported
                 /\ totals'.skipped = totals.skipped]_vars
    /\ []RunTotals

\* a run in which a chunk of two files completed, one file updated and one
\* skipped, and the next chunk failed
C37_Witness ==
    /\ ~args.interactive /\ pc = "photo"
    /\ hist.attempted = 2 /\ hist.raised = 1 /\ hist.last.err # NoErr
    /\ totals = [imported |-> 1, skipped |-> 1, failures |-> 1]
    /\ Cardinality(hist.took) = 1 /\ Cardinality(hist.passed) = 1

\* every numbered name resolve_collision gave out has a number that does not
\* exceed the number of the other files of its target
SuffixBounded ==
    \A y \in tgt :
        Len(y.path) = 3 =>
            y.path[3] <= Cardinality({z \in tgt : z.target = y.target /\ z # y})

\* C38: termination.  A non-interactive run that has started returns; every
\* step of a loop takes the chunk at the head of the list off the list, whether
\* the chunk completed or was recorded as failed, so every chunk is attempted
\* once and none is tried again; the numbers resolve_collision appends are
\* bounded by the number of files of the target
C38_Termination ==
    /\ (pc # "idle") ~> (pc = "idle")
    /\ [][ChunkStep =>
            /\ batches # <<>> /\ batches' = Tail(batches)
            /\ \/ hist'.last.err = NoErr /\ failureLog' = failureLog
               \/ hist'.last.err # NoErr /\ Len(failureLog') = Len(failureLog) + 1]_vars
    /\ [][(pc = "report" /\ pc' = "idle") =>
            hist.attempted = Planned(hist.start.src)]_vars
    /\ []SuffixBounded

\* a run has returned after a chunk failed, and a.jpg of the scan root was
\* given a numbered name beside the a.jpg of d
C38_Witness ==
    /\ pc = "idle" /\ hist.runs = 1
    /\ summary.failures = 1 /\ Len(failureLog) = 1
    /\ \E y \in tgt : y.path = <<1, 1, 1>>

====
